---- MODULE Spec2Model ----
(***************************************************************************)
(* Route-monitoring engine of ticketsniper.                                *)
(*                                                                         *)
(* The persistent store (monitored_routes, user_route_subscriptions,       *)
(* users.is_verified) is shared by the request-serving context (FastAPI    *)
(* handlers of api/endpoints/routes.py, one AsyncSession per request) and  *)
(* the background-worker context (Celery tasks of worker/tasks.py, one     *)
(* sync Session per task).  Every SQL statement / commit of a handler is   *)
(* one atomic step (PostgreSQL READ COMMITTED); the steps of different     *)
(* handlers interleave freely.  A Session keeps the attribute values of    *)
(* an object it has loaded (identity map): a later SELECT of the same row  *)
(* in the same Session does not refresh them.                              *)
(* The two contexts also share the Redis key of the location directory     *)
(* (services/regiojet_data_service.py); the notifications a check unit      *)
(* enqueues are send_notification_email tasks, executed and retried by      *)
(* Celery.  Every publish of a task to the broker (.delay) is a step of     *)
(* its own, and the broker may refuse it: the call then raises.             *)
(***************************************************************************)
EXTENDS Integers, FiniteSets, Sequences, TLC

\* ---------------------------------------------------------------- bounds
NumUsers == 2
NumSegs == 1
MaxRouteId == 2
NumProcs == 2
NumWorkers == 2
NumSched == 2
MaxTicks == 2
MaxTime == 2
MaxSeats == 2

\* retry_kwargs of send_notification_email
max_retries == 3

Users == 1..NumUsers
RouteIds == 1..MaxRouteId
Procs == 1..NumProcs
Workers == 1..NumWorkers
Scheds == 1..NumSched

\* RouteStatusEnum
MONITORING == "MONITORING"
FOUND == "FOUND"
EXPIRED == "EXPIRED"
RouteStatusEnum == {MONITORING, FOUND, EXPIRED}

\* The segment keys requests are made for: (regiojet_route_id,
\* from_location_id, to_location_id).
SegmentKeys ==
  {[regiojet_route_id |-> "R1", from_location_id |-> "A", to_location_id |-> i] :
     i \in 1..NumSegs}

\* The departure of the connection a request names (route_in.departure_datetime):
\* connection i departs at time i.
DepartureOf(key) == key.to_location_id

NoRow == [status |-> "ABSENT"]
NULL == -1

\* A row of monitored_routes; status defaults to MONITORING, last_checked_at to NULL.
MonitoredRoute(key, dep) ==
  [regiojet_route_id |-> key.regiojet_route_id,
   from_location_id |-> key.from_location_id,
   to_location_id |-> key.to_location_id,
   departure_datetime |-> dep,
   status |-> MONITORING,
   last_checked_at |-> NULL]

SegmentOf(row) ==
  [regiojet_route_id |-> row.regiojet_route_id,
   from_location_id |-> row.from_location_id,
   to_location_id |-> row.to_location_id]

VARIABLES
  routes,      \* monitored_routes: id -> row or NoRow
  nextId,      \* the id sequence of monitored_routes
  subs,        \* user_route_subscriptions: <<user_id, route_id>> -> number of rows
  users,       \* users: the ids of the rows
  verified,    \* users.is_verified
  nextUserId,  \* the id sequence of users
  now,         \* the clock
  req,         \* request-serving context: one handler invocation per slot
  queue,       \* Celery queue of check_single_route tasks: route id -> number queued
  chk,         \* check_single_route invocations, one per worker slot
  sched,       \* schedule_route_checks invocations
  ticks,       \* number of scheduler ticks started so far
  sweep,       \* the expire_past_routes invocation
  outbox,      \* send_notification_email tasks enqueued: <<route id, user>> -> count
  found,       \* route id -> number of MONITORING->FOUND changes of its row
  mail,        \* the send_notification_email tasks of a <<route id, user>>: those
               \* in the broker by their request.retries, those ended SENT, those given up
  cache        \* the value of the Redis key regiojet_locations

vars == <<routes, nextId, subs, users, verified, nextUserId, now, req, queue, chk,
          sched, ticks, sweep, outbox, found, mail, cache>>

registry == <<routes, nextId, subs>>
accounts == <<users, verified, nextUserId>>
workerVars == <<queue, chk, sched, ticks, sweep, outbox, found, mail, cache>>

\* ------------------------------------------------------------ store reads
Exists(rid) == rid \in RouteIds /\ routes[rid] # NoRow

\* ids of the rows with this segment key
RowsWithKey(key) == {i \in RouteIds : Exists(i) /\ SegmentOf(routes[i]) = key}

HasSub(u, rid) == rid \in RouteIds /\ subs[<<u, rid>>] > 0

RECURSIVE SumOver(_, _)
SumOver(f, S) ==
  IF S = {} THEN 0
  ELSE LET x == CHOOSE y \in S : TRUE IN f[x] + SumOver(f, S \ {x})

\* counts the subscription the caller has just deleted as well
count_subscriptions_stale(rid) ==
  1 + SumOver([u \in Users |-> IF rid \in RouteIds THEN subs[<<u, rid>>] ELSE 0], Users)

\* count_subscriptions_for_route
count_subscriptions_for_route(rid) ==
  SumOver([u \in Users |-> IF rid \in RouteIds THEN subs[<<u, rid>>] ELSE 0], Users)

\* the subscribers of the route, verified or not
get_route_subscribers(rid) == {u \in Users : HasSub(u, rid)}

\* get_verified_route_subscribers
get_verified_route_subscribers(rid) ==
  {u \in Users : HasSub(u, rid) /\ verified[u]}

\* ------------------------------------------------------------ constraints
NoUniqueSegment(key) == FALSE

\* uq_monitored_route_segment: an INSERT of a row with this key is rejected
\* (IntegrityError) when a row with the key exists.
UniqueSegmentViolated(key) == RowsWithKey(key) # {}

\* primary key (user_id, route_id) of user_route_subscriptions
SubscriptionPkViolated(u, rid) == subs[<<u, rid>>] > 0

\* foreign keys user_id -> users.id and route_id -> monitored_routes.id
SubscriptionFkViolated(u, rid) == u \notin users \/ ~Exists(rid)

\* DELETE FROM monitored_routes WHERE id = rid; the foreign key's
\* ON DELETE CASCADE removes the subscriptions of the route with it.
DeleteRouteCascade(rid) ==
  /\ routes' = [routes EXCEPT ![rid] = NoRow]
  /\ subs' = [k \in DOMAIN subs |-> IF k[2] = rid THEN 0 ELSE subs[k]]

\* ------------------------------------------------- the upstream provider
\* What a GET of /routes/{id}/simple can meet: a 2xx response whose JSON body
\* is an object with freeSeatsCount, an object without it, or not an object
\* (an array); a 4xx/5xx status; a timeout; a connection error.
UpstreamResponses ==
  {[kind |-> "object", code |-> 200, freeSeatsCount |-> n] : n \in 0..MaxSeats}
    \cup {[kind |-> k, code |-> 200, freeSeatsCount |-> 0] :
             k \in {"object_without_seats", "array"}}
    \cup {[kind |-> "status", code |-> c, freeSeatsCount |-> 0] : c \in {400, 404, 500}}
    \cup {[kind |-> k, code |-> 0, freeSeatsCount |-> 0] :
             k \in {"timeout", "connect_error"}}

\* the upstream could not be asked, or answered with an error other than 404
UpstreamFailure(resp) ==
  \/ resp.kind \in {"timeout", "connect_error"}
  \/ resp.kind = "status" /\ resp.code # 404

\* _fetch_regiojet_api / _fetch_regiojet_api_sync: the JSON body, or the
\* fastapi HTTPException every httpx error is turned into (raise_for_status
\* raises httpx.HTTPStatusError inside the try, so it never leaves the helper)
fetch_regiojet_api(resp) ==
  CASE resp.kind = "timeout" ->
         [exc |-> "HTTPException", status_code |-> 504, value |-> resp]
    [] resp.kind = "connect_error" ->
         [exc |-> "HTTPException", status_code |-> 503, value |-> resp]
    [] resp.kind = "status" ->
         [exc |-> "HTTPException",
          status_code |-> IF resp.code = 400 THEN 400 ELSE 502, value |-> resp]
    [] OTHER -> [exc |-> "none", status_code |-> resp.code, value |-> resp]

\* the results of the checker: (True, details), (False, None), or an exception
CheckerAvailable(seats) == [raised |-> FALSE, is_available |-> TRUE, details |-> seats]
CheckerUnavailable == [raised |-> FALSE, is_available |-> FALSE, details |-> NULL]
CheckerRaised == [raised |-> TRUE, is_available |-> FALSE, details |-> NULL]

\* reports seats for a seat count of zero as well
check_route_availability_lenient(resp) ==
  LET r == fetch_regiojet_api(resp) IN
    IF r.exc = "none" /\ r.value.kind \in {"object", "object_without_seats"}
    THEN CheckerAvailable(r.value.freeSeatsCount)
    ELSE CheckerUnavailable

\* check_route_availability: the try body, then the except clauses in their
\* order: httpx.HTTPStatusError (404: (False, None); else re-raised),
\* KeyError, Exception (both (False, None))
check_route_availability(resp) ==
  LET r == fetch_regiojet_api(resp) IN
    IF r.exc = "none"
    THEN IF r.value.kind \notin {"object", "object_without_seats"}
         THEN CheckerUnavailable
         ELSE LET free_seats == IF r.value.kind = "object"
                                THEN r.value.freeSeatsCount ELSE 0 IN
                IF free_seats > 0 THEN CheckerAvailable(free_seats)
                ELSE CheckerUnavailable
    ELSE IF r.exc = "HTTPStatusError"
         THEN IF r.status_code = 404 THEN CheckerUnavailable ELSE CheckerRaised
         ELSE CheckerUnavailable

\* check_route_availability_sync: the same body on the synchronous helper
check_route_availability_sync(resp) ==
  LET r == fetch_regiojet_api(resp) IN
    IF r.exc = "none"
    THEN IF r.value.kind \notin {"object", "object_without_seats"}
         THEN CheckerUnavailable
         ELSE LET free_seats == IF r.value.kind = "object"
                                THEN r.value.freeSeatsCount ELSE 0 IN
                IF free_seats > 0 THEN CheckerAvailable(free_seats)
                ELSE CheckerUnavailable
    ELSE IF r.exc = "HTTPStatusError"
         THEN IF r.status_code = 404 THEN CheckerUnavailable ELSE CheckerRaised
         ELSE CheckerUnavailable

\* ------------------------------------------------- the location directory
\* JSON values of the body of GET /consts/locations.  An optional member of
\* an object is <<>> when it is absent or null and <<v>> when it is v.
Missing == <<>>
JsonOther == [kind |-> "other"]
JsonList(items) == [kind |-> "list", items |-> items]
StationObject(id, fullname, name) ==
  [kind |-> "dict", id |-> id, fullname |-> fullname, name |-> name]
CityObject(id, name, stations) ==
  [kind |-> "dict", id |-> id, name |-> name, stations |-> stations]
CountryObject(cities) == [kind |-> "dict", cities |-> cities]

\* normalize_string on the names of the listings: lower case, diacritics removed
normalize_string(text) ==
  CASE text = "Brno" -> "brno"
    [] text = "Brno hl.n." -> "brno hl.n."
    [] text = "Brno, Zvonarka" -> "brno, zvonarka"
    [] OTHER -> text

\* a parsed location: id is str(id) of the listing
ParsedLocation(id, name, type) ==
  [id |-> ToString(id), name |-> name, type |-> type,
   normalized_name |-> normalize_string(name)]

\* an entry the parser passes over: not an object
NotAnObject(entry) == entry.kind # "dict"

\* _parse_locations_response: the loop over the stations of a city
RECURSIVE ParseStations(_)
ParseStations(items) ==
  IF items = <<>> THEN <<>>
  ELSE LET station == Head(items)
           rest == ParseStations(Tail(items)) IN
         IF NotAnObject(station) THEN rest
         ELSE LET station_name ==
                    IF station.fullname # Missing /\ station.fullname # <<"">>
                    THEN station.fullname ELSE station.name IN
                IF station.id # Missing /\ station_name # Missing
                THEN <<ParsedLocation(station.id[1], station_name[1], "STATION")>> \o rest
                ELSE rest

\* _parse_locations_response: the loop over the cities of a country
RECURSIVE ParseCities(_)
ParseCities(items) ==
  IF items = <<>> THEN <<>>
  ELSE LET city == Head(items)
           rest == ParseCities(Tail(items)) IN
         IF NotAnObject(city) THEN rest
         ELSE IF city.id = Missing \/ city.name = Missing THEN rest
         ELSE <<ParsedLocation(city.id[1], city.name[1], "CITY")>>
                \o (IF city.stations.kind = "list"
                    THEN ParseStations(city.stations.items) ELSE <<>>)
                \o rest

\* _parse_locations_response: the loop over the countries
RECURSIVE ParseCountries(_)
ParseCountries(items) ==
  IF items = <<>> THEN <<>>
  ELSE LET country == Head(items)
           rest == ParseCountries(Tail(items)) IN
         IF NotAnObject(country) THEN rest
         ELSE IF country.cities.kind # "list" THEN rest
         ELSE ParseCities(country.cities.items) \o rest

\* _parse_locations_response: ParsingError for a body that is not a list
parse_locations_response(api_data) ==
  IF api_data.kind # "list"
  THEN [exc |-> "ParsingError", value |-> <<>>]
  ELSE [exc |-> "none", value |-> ParseCountries(api_data.items)]

\* the entries of the listings
GoodStation == StationObject(<<1>>, <<"Brno hl.n.">>, <<"Brno">>)
Stations ==
  {GoodStation,
   StationObject(<<1>>, Missing, <<"Brno, Zvonarka">>),
   StationObject(<<1>>, <<"">>, <<"Brno, Zvonarka">>),
   StationObject(Missing, <<"Brno hl.n.">>, <<"Brno">>),
   StationObject(<<1>>, Missing, Missing),
   JsonOther}

StationLists ==
  {JsonList(<<>>), JsonOther}
    \cup {JsonList(<<x>>) : x \in Stations}
    \cup {JsonList(<<GoodStation, x>>) : x \in Stations}

Cities ==
  {CityObject(<<10>>, <<"Brno">>, l) : l \in StationLists}
    \cup {CityObject(Missing, <<"Brno">>, JsonList(<<GoodStation>>)),
          CityObject(<<10>>, Missing, JsonList(<<GoodStation>>)),
          JsonOther}

GoodCity == CityObject(<<10>>, <<"Brno">>, JsonList(<<GoodStation>>))

CityLists ==
  {JsonList(<<>>), JsonOther}
    \cup {JsonList(<<x>>) : x \in Cities}
    \cup {JsonList(<<GoodCity, x>>) :
            x \in {CityObject(Missing, <<"Brno">>, JsonList(<<>>)), JsonOther}}

Countries == {CountryObject(l) : l \in CityLists} \cup {JsonOther}

\* the bodies: not a list, or a list of countries
LocationListings ==
  {JsonOther, JsonList(<<>>)}
    \cup {JsonList(<<x>>) : x \in Countries}
    \cup {JsonList(<<CountryObject(JsonList(<<GoodCity>>)), JsonOther>>)}

\* a station, a city or a country of the listing is malformed: not an
\* object, or without its id or its name
MalformedStation(x) ==
  \/ x.kind # "dict"
  \/ x.id = Missing
  \/ (x.fullname = Missing /\ x.name = Missing)

MalformedCity(x) ==
  \/ x.kind # "dict"
  \/ x.id = Missing \/ x.name = Missing
  \/ x.stations.kind = "list"
       /\ \E i \in DOMAIN x.stations.items : MalformedStation(x.stations.items[i])

MalformedCountry(x) ==
  \/ x.kind # "dict"
  \/ x.cities.kind = "list"
       /\ \E i \in DOMAIN x.cities.items : MalformedCity(x.cities.items[i])

MalformedListing(body) ==
  body.kind = "list" /\ \E i \in DOMAIN body.items : MalformedCountry(body.items[i])

\* What a GET of /consts/locations can meet: a 2xx response with one of the
\* bodies, a 4xx/5xx status, a timeout, a connection error.
LocationResponses ==
  {[kind |-> "object", code |-> 200, body |-> b] : b \in LocationListings}
    \cup {[kind |-> "status", code |-> c, body |-> JsonOther] : c \in {400, 404, 500}}
    \cup {[kind |-> k, code |-> 0, body |-> JsonOther] : k \in {"timeout", "connect_error"}}

\* the value of the Redis key: no key (never set, or expired), a value that
\* is not JSON, JSON that is not a list, or the JSON of a list
CacheAbsent == [kind |-> "absent", locations |-> <<>>]
CacheGarbage == [kind |-> "garbage", locations |-> <<>>]
CacheOther == [kind |-> "other", locations |-> <<>>]
CacheList(locations) == [kind |-> "list", locations |-> locations]

\* Location.model_validate of an entry of a decoded list: an object with the
\* four members, type one of the two literals
LocationTypes == {"CITY", "STATION"}

model_validate(loc_data) ==
  /\ {"id", "name", "type", "normalized_name"} \subseteq DOMAIN loc_data
  /\ loc_data.type \in LocationTypes

\* the loop over locations_data: every entry validated before the first one
\* that fails has been appended when the loop breaks; whether one failed
RECURSIVE ValidateCached(_)
ValidateCached(locations_data) ==
  IF locations_data = <<>>
  THEN [validation_failed |-> FALSE, validated_locations |-> <<>>]
  ELSE IF ~model_validate(Head(locations_data))
  THEN [validation_failed |-> TRUE, validated_locations |-> <<>>]
  ELSE LET rest == ValidateCached(Tail(locations_data)) IN
         [validation_failed |-> rest.validation_failed,
          validated_locations |-> <<Head(locations_data)>> \o rest.validated_locations]

\* returns the entries that validate and passes over the others
get_locations_from_cache_lenient(redis_ok) ==
  IF redis_ok /\ cache.kind = "list"
  THEN [value |-> TRUE,
        locations |-> SelectSeq(cache.locations, model_validate)]
  ELSE [value |-> FALSE, locations |-> <<>>]

\* _get_locations_from_cache / _get_locations_from_cache_sync: None
\* (value = FALSE) for a Redis error, a missing key, a value that does not
\* decode, is not a list, or has an entry that does not validate; else the
\* validated list
get_locations_from_cache(redis_ok) ==
  IF redis_ok /\ cache.kind = "list"
  THEN LET v == ValidateCached(cache.locations) IN
         IF v.validation_failed THEN [value |-> FALSE, locations |-> <<>>]
         ELSE [value |-> TRUE, locations |-> v.validated_locations]
  ELSE [value |-> FALSE, locations |-> <<>>]

\* check_single_route: location_map.get(id, f"ID {id}") on the map made of
\* what the cache gave (no map when it gave None or an empty list)
StationName(cached_locations, id) ==
  LET hits == {i \in DOMAIN cached_locations.locations :
                 cached_locations.locations[i].id = id} IN
    IF cached_locations.value /\ hits # {}
    THEN cached_locations.locations[CHOOSE i \in hits : \A j \in hits : j <= i].name
    ELSE "ID " \o id

\* ------------------------------------------------------------- requests
\* resp: the upstream response a direct call of the checker, or the refresh
\* of get_locations, met; is_available, details: the locals of these names;
\* locations: the list get_locations returned
NoResponse == [kind |-> "none", code |-> 0, freeSeatsCount |-> 0]

Idle ==
  [pc |-> "idle", op |-> "none", user |-> 0, key |-> NoRow, rid |-> 0,
   st |-> "NONE", res |-> "", last |-> "", cnt |-> NULL,
   pre |-> NoRow, resp |-> NoResponse, is_available |-> FALSE,
   details |-> NULL, locations |-> <<>>]

Finish(p, result) ==
  req' = [req EXCEPT ![p].res = result, ![p].last = req[p].pc, ![p].pc = "done",
                     ![p].st = "NONE"]

Goto(p, label) == req' = [req EXCEPT ![p].pc = label]

\* A slot serves one request; the slots are alike, and a request takes the
\* first unused one.
CanStart(p) ==
  /\ req[p].pc = "idle"
  /\ \A q \in Procs : q < p => req[q].pc # "idle"


\* --- a call of the checker on its own
CheckerResult(p, name, resp, out) ==
  req' = [req EXCEPT ![p] =
            [Idle EXCEPT !.pc = "done", !.op = name, !.resp = resp,
                         !.res = IF out.raised THEN "raised"
                                 ELSE IF out.is_available THEN "available"
                                 ELSE "unavailable",
                         !.is_available = out.is_available,
                         !.details = out.details]]

CallChecker(p, resp) ==
  /\ CanStart(p)
  /\ CheckerResult(p, "check_route_availability", resp, check_route_availability(resp))
  /\ UNCHANGED <<registry, accounts, now, workerVars>>

CallCheckerSync(p, resp) ==
  /\ CanStart(p)
  /\ CheckerResult(p, "check_route_availability_sync", resp,
                   check_route_availability_sync(resp))
  /\ UNCHANGED <<registry, accounts, now, workerVars>>

\* --- POST /monitor: create_monitoring_request
StartMonitor(p, u, key) ==
  /\ CanStart(p)
  /\ u \in users /\ verified[u]
  /\ req' = [req EXCEPT ![p] = [Idle EXCEPT !.pc = "m_check", !.op = "monitor",
                                          !.user = u, !.key = key]]
  /\ UNCHANGED <<registry, accounts, now, workerVars>>

\* step 1: the initial availability check
\* saves the monitoring request whatever the check reports
MonitorCheckSavesAnyway(p, resp) ==
  /\ req[p].pc = "m_check"
  /\ LET out == check_route_availability(resp) IN
       req' = [req EXCEPT ![p].pc = "m_goc", ![p].is_available = out.is_available]
  /\ UNCHANGED <<registry, accounts, now, workerVars>>

\* (is_available, details = await check_route_availability(...); an exception
\* of the checker is re-raised; seats end the request with 200 and no write)
MonitorCheck(p, resp) ==
  /\ req[p].pc = "m_check"
  /\ LET out == check_route_availability(resp) IN
       CASE out.raised -> Finish(p, "error")
         [] out.is_available ->
              req' = [req EXCEPT ![p].res = "available_now", ![p].last = "m_check",
                                 ![p].pc = "done", ![p].is_available = TRUE]
         [] OTHER -> Goto(p, "m_goc")
  /\ UNCHANGED <<registry, accounts, now, workerVars>>

\* get_or_create_monitored_route: the SELECT by segment key
GetOrCreateSelect(p) ==
  /\ req[p].pc = "m_goc"
  /\ LET rows == RowsWithKey(req[p].key) IN
       IF rows # {}
       THEN LET rid == CHOOSE i \in rows : TRUE IN
              IF routes[rid].status # MONITORING
              THEN req' = [req EXCEPT ![p].pc = "m_reactivate", ![p].rid = rid,
                                      ![p].st = routes[rid].status]
              ELSE req' = [req EXCEPT ![p].pc = "m_sub", ![p].rid = rid,
                                      ![p].st = MONITORING]
       ELSE Goto(p, "m_insert")
  /\ UNCHANGED <<registry, accounts, now, workerVars>>

\* get_or_create_monitored_route: existing_route.status = MONITORING; commit
\* (UPDATE ... WHERE id = rid; no row matched is a StaleDataError).  The
\* refresh of the object is the next round trip.
GetOrCreateReactivate(p) ==
  /\ req[p].pc = "m_reactivate"
  /\ IF Exists(req[p].rid)
     THEN /\ routes' = [routes EXCEPT ![req[p].rid].status = MONITORING]
          /\ req' = [req EXCEPT ![p].pc = "m_reactrefresh", ![p].st = MONITORING]
     ELSE /\ Finish(p, "error")
          /\ UNCHANGED routes
  /\ UNCHANGED <<nextId, subs, accounts, now, workerVars>>

\* get_or_create_monitored_route: await db.refresh(existing_route); return.
\* The object takes the values the row has now; a row that is gone makes
\* refresh raise, which the handler turns into a 500.
GetOrCreateRefresh(p) ==
  /\ req[p].pc = "m_reactrefresh"
  /\ IF Exists(req[p].rid)
     THEN req' = [req EXCEPT ![p].pc = "m_sub", ![p].st = routes[req[p].rid].status]
     ELSE Finish(p, "error")
  /\ UNCHANGED <<registry, accounts, now, workerVars>>

\* _create_monitored_route_internal: INSERT; commit.  The id is drawn from
\* the sequence before the row is checked against uq_monitored_route_segment,
\* and a sequence does not take a value back: the rejected INSERT has used
\* one.  The IntegrityError is not caught by get_or_create_monitored_route;
\* create_monitoring_request turns it into a 500.  The refresh of the new
\* object is the next round trip.
CreateRouteInternal(p) ==
  /\ req[p].pc = "m_insert"
  /\ nextId <= MaxRouteId
  /\ nextId' = nextId + 1
  /\ IF UniqueSegmentViolated(req[p].key)
     THEN /\ Finish(p, "error")
          /\ UNCHANGED routes
     ELSE /\ routes' = [routes EXCEPT ![nextId] =
                          MonitoredRoute(req[p].key, DepartureOf(req[p].key))]
          /\ req' = [req EXCEPT ![p].pc = "m_insrefresh", ![p].rid = nextId,
                                ![p].st = MONITORING]
  /\ UNCHANGED <<subs, accounts, now, workerVars>>

\* _create_monitored_route_internal: await db.refresh(db_route); return (the
\* object takes the values the row has now; refresh raises when it is gone)
CreateRouteRefresh(p) ==
  /\ req[p].pc = "m_insrefresh"
  /\ IF Exists(req[p].rid)
     THEN req' = [req EXCEPT ![p].pc = "m_sub", ![p].st = routes[req[p].rid].status]
     ELSE Finish(p, "error")
  /\ UNCHANGED <<registry, accounts, now, workerVars>>

\* create_user_subscription: the SELECT of the (user, route) row
CreateSubscriptionSelect(p) ==
  /\ req[p].pc = "m_sub"
  /\ IF HasSub(req[p].user, req[p].rid)
     THEN Finish(p, "monitoring_created")
     ELSE Goto(p, "m_subinsert")
  /\ UNCHANGED <<registry, accounts, now, workerVars>>

\* lets the error of the INSERT reach the caller
CreateSubscriptionInsertNoCatch(p) ==
  /\ req[p].pc = "m_subinsert"
  /\ LET u == req[p].user
         rid == req[p].rid IN
       IF SubscriptionPkViolated(u, rid) \/ SubscriptionFkViolated(u, rid)
       THEN /\ Finish(p, "error")
            /\ UNCHANGED subs
       ELSE /\ subs' = [subs EXCEPT ![<<u, rid>>] = @ + 1]
            /\ Goto(p, "m_subrefresh")
  /\ UNCHANGED <<routes, nextId, accounts, now, workerVars>>

\* create_user_subscription: INSERT; commit, and on an error the rollback.
\* The refresh of the new object is the next round trip.
CreateSubscriptionInsert(p) ==
  /\ req[p].pc = "m_subinsert"
  /\ LET u == req[p].user
         rid == req[p].rid IN
       IF SubscriptionPkViolated(u, rid) \/ SubscriptionFkViolated(u, rid)
       THEN /\ Goto(p, "m_subreselect")
            /\ UNCHANGED subs
       ELSE /\ subs' = [subs EXCEPT ![<<u, rid>>] = @ + 1]
            /\ Goto(p, "m_subrefresh")
  /\ UNCHANGED <<routes, nextId, accounts, now, workerVars>>

\* create_user_subscription: await db.refresh(db_subscription), inside the
\* try: the row is there and the subscription is returned, or it is gone
\* (a cancel of the same user, the cascade of a deleted route), refresh
\* raises and the except clause rolls back and re-selects
CreateSubscriptionRefresh(p) ==
  /\ req[p].pc = "m_subrefresh"
  /\ IF HasSub(req[p].user, req[p].rid)
     THEN Finish(p, "monitoring_created")
     ELSE Goto(p, "m_subreselect")
  /\ UNCHANGED <<registry, accounts, now, workerVars>>

\* create_user_subscription: the commit of the INSERT raises for a reason
\* other than a constraint (the connection to the database is lost, the
\* statement times out): nothing is written, and the except clause rolls back
\* and re-selects as for a conflict
CreateSubscriptionCommitFails(p) ==
  /\ req[p].pc = "m_subinsert"
  /\ Goto(p, "m_subreselect")
  /\ UNCHANGED <<registry, accounts, now, workerVars>>

\* create_user_subscription: the SELECT after the rollback; the error is
\* re-raised (a 500 of create_monitoring_request) when the row is still absent
CreateSubscriptionReselect(p) ==
  /\ req[p].pc = "m_subreselect"
  /\ IF HasSub(req[p].user, req[p].rid)
     THEN Finish(p, "monitoring_created")
     ELSE Finish(p, "error")
  /\ UNCHANGED <<registry, accounts, now, workerVars>>

\* --- DELETE /monitor/{db_id}: cancel_monitoring_request
StartCancel(p, u, rid) ==
  /\ CanStart(p)
  /\ u \in users /\ verified[u]
  /\ req' = [req EXCEPT ![p] = [Idle EXCEPT !.pc = "x_delete", !.op = "cancel",
                                          !.user = u, !.rid = rid]]
  /\ UNCHANGED <<registry, accounts, now, workerVars>>

\* takes the DELETE for done whether or not it met a row
DeleteUserSubscriptionUnchecked(p) ==
  /\ req[p].pc = "x_delete"
  /\ subs' = [subs EXCEPT ![<<req[p].user, req[p].rid>>] = 0]
  /\ req' = [req EXCEPT ![p].pc = "x_count",
                        ![p].pre = [routes |-> routes, subs |-> subs]]
  /\ UNCHANGED <<routes, nextId, accounts, now, workerVars>>

\* delete_user_subscription: DELETE ... WHERE user_id, route_id; commit;
\* rowcount > 0.  No row deleted is the 404 of cancel_monitoring_request.
\* pre keeps the two tables as they were before the DELETE.
DeleteUserSubscription(p) ==
  /\ req[p].pc = "x_delete"
  /\ LET u == req[p].user
         rid == req[p].rid IN
       IF subs[<<u, rid>>] > 0
       THEN /\ subs' = [subs EXCEPT ![<<u, rid>>] = 0]
            /\ req' = [req EXCEPT ![p].pc = "x_count",
                                  ![p].pre = [routes |-> routes, subs |-> subs]]
       ELSE /\ Finish(p, "not_found")
            /\ UNCHANGED subs
  /\ UNCHANGED <<routes, nextId, accounts, now, workerVars>>

\* count_subscriptions_for_route, and the branch on remaining_subscriptions == 0
CountSubscriptions(p) ==
  /\ req[p].pc = "x_count"
  /\ LET n == count_subscriptions_for_route(req[p].rid) IN
       IF n = 0
       THEN req' = [req EXCEPT ![p].pc = "x_delroute", ![p].cnt = n]
       ELSE req' = [req EXCEPT ![p].res = "ok", ![p].last = "x_count",
                               ![p].pc = "done", ![p].cnt = n]
  /\ UNCHANGED <<registry, accounts, now, workerVars>>

\* delete_monitored_route: DELETE ... WHERE id; commit
DeleteMonitoredRoute(p) ==
  /\ req[p].pc = "x_delroute"
  /\ DeleteRouteCascade(req[p].rid)
  /\ Finish(p, "ok")
  /\ UNCHANGED <<nextId, accounts, now, workerVars>>

\* cancel_monitoring_request: a statement or commit of one of the three steps
\* raises (the connection to the database is lost, the statement times out):
\* nothing is written; the except Exception clause of the handler logs the
\* error and the handler returns, which is the 204 of a cancellation done
CancelStepFails(p) ==
  /\ req[p].pc \in {"x_delete", "x_count", "x_delroute"}
  /\ Finish(p, "ok")
  /\ UNCHANGED <<registry, accounts, now, workerVars>>

\* --- POST /monitored-routes/{route_db_id}/restart: restart_monitoring_request
StartRestart(p, u, rid) ==
  /\ CanStart(p)
  /\ u \in users /\ verified[u]
  /\ req' = [req EXCEPT ![p] = [Idle EXCEPT !.pc = "r_get", !.op = "restart",
                                          !.user = u, !.rid = rid]]
  /\ UNCHANGED <<registry, accounts, now, workerVars>>

\* step 1: get_monitored_route_by_id; 404 when there is no row
RestartGetRoute(p) ==
  /\ req[p].pc = "r_get"
  /\ IF Exists(req[p].rid)
     THEN req' = [req EXCEPT ![p].pc = "r_sub", ![p].st = routes[req[p].rid].status]
     ELSE Finish(p, "not_found")
  /\ UNCHANGED <<registry, accounts, now, workerVars>>

\* restarts a route of any status
RestartVerifyAnyStatus(p) ==
  /\ req[p].pc = "r_sub"
  /\ IF ~HasSub(req[p].user, req[p].rid) THEN Finish(p, "forbidden")
     ELSE Goto(p, "r_check")
  /\ UNCHANGED <<registry, accounts, now, workerVars>>

\* steps 2 and 3: get_user_subscription_for_route (403 when none), then the
\* status of the loaded route object (409 when not FOUND)
RestartVerify(p) ==
  /\ req[p].pc = "r_sub"
  /\ IF ~HasSub(req[p].user, req[p].rid) THEN Finish(p, "forbidden")
     ELSE IF req[p].st # FOUND THEN Finish(p, "conflict")
     ELSE Goto(p, "r_check")
  /\ UNCHANGED <<registry, accounts, now, workerVars>>

\* step 4: the live availability check
RestartCheck(p, resp) ==
  /\ req[p].pc = "r_check"
  /\ LET out == check_route_availability(resp) IN
       CASE out.raised -> Finish(p, "error")
         [] out.is_available ->
              req' = [req EXCEPT ![p].res = "not_restarted", ![p].last = "r_check",
                                 ![p].pc = "done", ![p].is_available = TRUE,
                                 ![p].st = "NONE"]
         [] OTHER -> Goto(p, "r_update")
  /\ UNCHANGED <<registry, accounts, now, workerVars>>

\* writes the status and leaves last_checked_at as it was
UpdateRouteStatusOnly(p) ==
  /\ req[p].pc = "r_update"
  /\ IF Exists(req[p].rid)
     THEN /\ routes' = [routes EXCEPT ![req[p].rid].status = MONITORING]
          /\ req' = [req EXCEPT ![p].pc = "r_refresh", ![p].st = MONITORING]
     ELSE /\ Finish(p, "error")
          /\ UNCHANGED routes
  /\ UNCHANGED <<nextId, subs, accounts, now, workerVars>>

\* update_route_status_and_last_checked on the loaded object: UPDATE ... SET
\* status, last_checked_at WHERE id; commit (no row matched: StaleDataError,
\* 500).  The refresh of the object is the next round trip.
UpdateRouteStatusAndLastChecked(p) ==
  /\ req[p].pc = "r_update"
  /\ IF Exists(req[p].rid)
     THEN /\ routes' = [routes EXCEPT ![req[p].rid].status = MONITORING,
                                      ![req[p].rid].last_checked_at = now]
          /\ req' = [req EXCEPT ![p].pc = "r_refresh", ![p].st = MONITORING]
     ELSE /\ Finish(p, "error")
          /\ UNCHANGED routes
  /\ UNCHANGED <<nextId, subs, accounts, now, workerVars>>

\* update_route_status_and_last_checked: await db.refresh(route); return (a
\* row that is gone makes refresh raise: the 500 of the handler)
UpdateRouteRefresh(p) ==
  /\ req[p].pc = "r_refresh"
  /\ IF Exists(req[p].rid)
     THEN Finish(p, "restarted")
     ELSE Finish(p, "error")
  /\ UNCHANGED <<registry, accounts, now, workerVars>>

\* --- GET /locations: read_locations, get_locations
StartLocations(p) ==
  /\ CanStart(p)
  /\ req' = [req EXCEPT ![p] = [Idle EXCEPT !.pc = "l_cache", !.op = "locations"]]
  /\ UNCHANGED <<registry, accounts, now, workerVars>>

\* step 1: the cached list is returned when the cache gives one
LocationsFromCache(p, redis_ok) ==
  /\ req[p].pc = "l_cache"
  /\ LET cached_data == get_locations_from_cache(redis_ok) IN
       IF cached_data.value
       THEN req' = [req EXCEPT ![p].res = "ok", ![p].last = "l_cache", ![p].pc = "done",
                               ![p].locations = cached_data.locations]
       ELSE Goto(p, "l_fetch")
  /\ UNCHANGED <<registry, accounts, now, workerVars>>

\* steps 2 to 5: fetch (the HTTPException of the helper is re-raised), parse
\* (ParsingError: 502), validate (the parsed entries are valid Locations),
\* _set_locations_to_cache (a Redis error is logged), return
LocationsRefresh(p, resp, redis_ok) ==
  /\ req[p].pc = "l_fetch"
  /\ LET api_data == fetch_regiojet_api(resp)
         parsed == parse_locations_response(resp.body) IN
       IF api_data.exc # "none" \/ parsed.exc # "none"
       THEN /\ req' = [req EXCEPT ![p].res = "error", ![p].last = "l_fetch",
                                  ![p].pc = "done", ![p].resp = resp]
            /\ UNCHANGED cache
       ELSE /\ req' = [req EXCEPT ![p].res = "ok", ![p].last = "l_fetch",
                                  ![p].pc = "done", ![p].resp = resp,
                                  ![p].locations = parsed.value]
            /\ cache' = IF redis_ok THEN CacheList(parsed.value) ELSE cache
  /\ UNCHANGED <<registry, accounts, now, queue, chk, sched, ticks, sweep, outbox,
                 found, mail>>

\* the key expires (ex=LOCATION_CACHE_TTL_SECONDS)
CacheExpire ==
  /\ cache.kind # "absent"
  /\ cache' = CacheAbsent
  /\ UNCHANGED <<registry, accounts, now, req, queue, chk, sched, ticks, sweep,
                 outbox, found, mail>>

\* --- the handler has returned its response: the slot serves the next request
ServeNext(p) ==
  /\ req[p].pc = "done"
  /\ req' = [req EXCEPT ![p] = Idle]
  /\ UNCHANGED <<registry, accounts, now, workerVars>>

\* --- POST /auth/register (register_user, create_user): the INSERT of a
\* users row that is not verified, and its commit; the sequence gives the
\* id, and never gives it again.  The e-mail addresses are not part of the
\* state: the request comes with an address no row holds (any other is
\* answered 400 by the SELECT that comes first and writes nothing), unless
\* a registration of the same address has committed since that SELECT
\* (emailTaken): the INSERT then breaks the unique index, is rolled back
\* and answered 400, and the id it drew is gone.
RegisterUser(emailTaken) ==
  /\ nextUserId <= NumUsers
  /\ emailTaken => users # {}
  /\ nextUserId' = nextUserId + 1
  /\ IF emailTaken
     THEN UNCHANGED <<users, verified>>
     ELSE /\ users' = users \cup {nextUserId}
          /\ verified' = [verified EXCEPT ![nextUserId] = FALSE]
  /\ UNCHANGED <<registry, now, req, workerVars>>

\* --- GET /auth/confirm/{token} (confirm_email, activate_user): the commit
\* of is_verified = True on the row of the token's address.  No row: 404;
\* a row that is verified already: 400, nothing is written.
ConfirmEmail(u) ==
  /\ u \in users
  /\ ~verified[u]
  /\ verified' = [verified EXCEPT ![u] = TRUE]
  /\ UNCHANGED <<registry, users, nextUserId, now, req, workerVars>>

\* --- the admin's form of a User (UserAdmin.form_columns: email and
\* is_verified): is_verified is set.  The e-mail the form changes is not part
\* of the state.  The form creates no user: it has no field for
\* hashed_password, which is NOT NULL, so the INSERT fails.
AdminSetVerified(u, is_verified) ==
  /\ u \in users
  /\ verified[u] # is_verified
  /\ verified' = [verified EXCEPT ![u] = is_verified]
  /\ UNCHANGED <<registry, users, nextUserId, now, req, workerVars>>

\* --- the admin's views of the tables (sqladmin ModelView, which lets the
\* admin create, edit and delete rows unless the view says otherwise, and
\* these views do not).  Each submitted form is one transaction.

\* the values the form of a MonitoredRoute can hold (MonitoredRouteAdmin.
\* form_columns): the segment, the departure, the status, last_checked_at
AdminRouteForm(key, dep, status, last_checked_at) ==
  [MonitoredRoute(key, dep) EXCEPT !.status = status,
                                   !.last_checked_at = last_checked_at]

\* MonitoredRouteAdmin, create: INSERT of the row of the form; the id is
\* drawn from the sequence, uq_monitored_route_segment rejects a second row
\* of a segment
AdminCreateRoute(row) ==
  /\ nextId <= MaxRouteId
  /\ nextId' = nextId + 1
  /\ IF UniqueSegmentViolated(SegmentOf(row))
     THEN UNCHANGED routes
     ELSE routes' = [routes EXCEPT ![nextId] = row]
  /\ UNCHANGED <<subs, accounts, now, req, workerVars>>

\* MonitoredRouteAdmin, edit: the fields of the form are written to the row,
\* those the admin did not touch with the values the form was opened with;
\* the UPDATE is rejected when another row has the segment of the form
AdminEditRoute(rid, row) ==
  /\ Exists(rid)
  /\ row # routes[rid]
  /\ RowsWithKey(SegmentOf(row)) \subseteq {rid}
  /\ routes' = [routes EXCEPT ![rid] = row]
  /\ UNCHANGED <<nextId, subs, accounts, now, req, workerVars>>

\* MonitoredRouteAdmin, delete: the row goes, and its subscriptions with it
\* (cascade="all, delete-orphan", ON DELETE CASCADE)
AdminDeleteRoute(rid) ==
  /\ Exists(rid)
  /\ DeleteRouteCascade(rid)
  /\ UNCHANGED <<nextId, accounts, now, req, workerVars>>

\* UserRouteSubscriptionAdmin, create: INSERT of the (user, route) pair the
\* form selects among the rows there are; the primary key rejects a duplicate
AdminCreateSubscription(u, rid) ==
  /\ u \in users /\ Exists(rid)
  /\ ~SubscriptionPkViolated(u, rid)
  /\ subs' = [subs EXCEPT ![<<u, rid>>] = @ + 1]
  /\ UNCHANGED <<routes, nextId, accounts, now, req, workerVars>>

\* UserRouteSubscriptionAdmin, edit: the row is given another user or route
AdminEditSubscription(u, rid, v, rid2) ==
  /\ HasSub(u, rid)
  /\ <<u, rid>> # <<v, rid2>>
  /\ v \in users /\ Exists(rid2)
  /\ ~SubscriptionPkViolated(v, rid2)
  /\ subs' = [subs EXCEPT ![<<u, rid>>] = 0, ![<<v, rid2>>] = @ + 1]
  /\ UNCHANGED <<routes, nextId, accounts, now, req, workerVars>>

\* UserRouteSubscriptionAdmin, delete
AdminDeleteSubscription(u, rid) ==
  /\ HasSub(u, rid)
  /\ subs' = [subs EXCEPT ![<<u, rid>>] = 0]
  /\ UNCHANGED <<routes, nextId, accounts, now, req, workerVars>>

\* UserAdmin, delete: the row of the user goes, and its subscriptions with it
\* (cascade="all, delete-orphan", ON DELETE CASCADE).  The user's token
\* resolves to no row (get_current_user: 401) until the address registers
\* again, which makes a row with a new id (RegisterUser); a request of the
\* user that is running keeps the id of the row that is gone.
AdminDeleteUser(u) ==
  /\ u \in users
  /\ users' = users \ {u}
  /\ verified' = [verified EXCEPT ![u] = FALSE]
  /\ subs' = [k \in DOMAIN subs |-> IF k[1] = u THEN 0 ELSE subs[k]]
  /\ UNCHANGED <<routes, nextId, nextUserId, now, req, workerVars>>

\* ------------------------------------------------------------- the clock
Tick ==
  /\ now < MaxTime
  /\ now' = now + 1
  /\ UNCHANGED <<registry, accounts, req, workerVars>>

\* ------------------------------------------------- schedule_route_checks
\* ids: the selected routes the tick has still to deal with (active_routes,
\* then what is left of routes_to_check_ids); now: the local of this name
IdleSched == [pc |-> "idle", ids |-> {}, now |-> 0]

\* selects the FOUND routes with the MONITORING ones
ScheduleSelectNotExpired(s) ==
  /\ sched[s].pc = "idle"
  /\ \A t \in Scheds : t < s => sched[t].pc # "idle"
  /\ ticks < MaxTicks
  /\ ticks' = ticks + 1
  /\ LET ids == {i \in RouteIds : Exists(i) /\ routes[i].status # EXPIRED} IN
       IF ids = {} THEN UNCHANGED sched
       ELSE sched' = [sched EXCEPT ![s] = [pc |-> "stamp", ids |-> ids, now |-> now]]
  /\ UNCHANGED <<registry, accounts, now, req, queue, chk, sweep, outbox, mail, cache, found>>

\* (run by the first idle worker) SELECT the MONITORING routes; return when
\* there is none; now = datetime.now()
ScheduleSelect(s) ==
  /\ sched[s].pc = "idle"
  /\ \A t \in Scheds : t < s => sched[t].pc # "idle"
  /\ ticks < MaxTicks
  /\ ticks' = ticks + 1
  /\ LET ids == {i \in RouteIds : Exists(i) /\ routes[i].status = MONITORING} IN
       IF ids = {} THEN UNCHANGED sched
       ELSE sched' = [sched EXCEPT ![s] = [pc |-> "stamp", ids |-> ids, now |-> now]]
  /\ UNCHANGED <<registry, accounts, now, req, queue, chk, sweep, outbox, mail, cache, found>>

\* last_checked_at = now for every selected route; db.commit() (an UPDATE
\* per row in one transaction; a row deleted since the SELECT is a
\* StaleDataError: rollback, the tick ends and dispatches nothing)
ScheduleStamp(s) ==
  /\ sched[s].pc = "stamp"
  /\ LET ids == sched[s].ids IN
       IF \A i \in ids : Exists(i)
       THEN /\ routes' = [i \in RouteIds |->
                            IF i \in ids
                            THEN [routes[i] EXCEPT !.last_checked_at = sched[s].now]
                            ELSE routes[i]]
            /\ sched' = [sched EXCEPT ![s].pc = "dispatch"]
       ELSE /\ UNCHANGED routes
            /\ sched' = [sched EXCEPT ![s] = IdleSched]
  /\ UNCHANGED <<nextId, subs, accounts, now, req, queue, chk, ticks, sweep, outbox,
                 mail, cache, found>>

\* One iteration of the loop over routes_to_check_ids (the SELECT has no
\* ORDER BY: the ids come in any order): check_single_route.delay(route_id)
\* publishes the task.  A publish the broker refuses raises: the except
\* clause ends the tick, and the ids not yet reached get no check unit.
ScheduleDispatch(s, rid, publishFails) ==
  /\ sched[s].pc = "dispatch"
  /\ rid \in sched[s].ids
  /\ LET rest == sched[s].ids \ {rid} IN
       IF publishFails
       THEN /\ UNCHANGED queue
            /\ sched' = [sched EXCEPT ![s] = IdleSched]
       ELSE /\ queue' = [queue EXCEPT ![rid] = @ + 1]
            /\ sched' = [sched EXCEPT ![s] = IF rest = {} THEN IdleSched
                                             ELSE [@ EXCEPT !.ids = rest]]
  /\ UNCHANGED <<registry, accounts, now, req, chk, ticks, sweep, outbox, mail, cache,
                 found>>

\* ------------------------------------------------------ check_single_route
\* db_route: what the unit reads later of the route object its Session
\* loaded; subscribers, from_station_name, to_station_name: the locals of
\* these names; todo: the subscribers the loop has not reached yet
IdleCheck ==
  [pc |-> "idle", rid |-> 0,
   db_route |-> [from_location_id |-> "", to_location_id |-> 0],
   subscribers |-> {}, todo |-> {},
   from_station_name |-> "", to_station_name |-> ""]

\* the unit after db.get(MonitoredRoute, route_id) has loaded the row
LoadedCheck(rid) ==
  [IdleCheck EXCEPT !.pc = "c_check", !.rid = rid,
                    !.db_route = [from_location_id |-> routes[rid].from_location_id,
                                  to_location_id |-> routes[rid].to_location_id]]

\* takes a queued task only when no other check unit is running
CheckFetchRouteSerial(w, rid) ==
  /\ \A v \in Workers : chk[v].pc = "idle"
  /\ w = 1
  /\ queue[rid] > 0
  /\ queue' = [queue EXCEPT ![rid] = @ - 1]
  /\ IF Exists(rid) /\ routes[rid].status = MONITORING
     THEN chk' = [chk EXCEPT ![w] = LoadedCheck(rid)]
     ELSE UNCHANGED chk
  /\ UNCHANGED <<registry, accounts, now, req, sched, ticks, sweep, outbox, mail, cache, found>>

\* leaves the task in the queue while a check unit of the route is running
CheckFetchRouteLocked(w, rid) ==
  /\ chk[w].pc = "idle"
  /\ \A v \in Workers : v < w => chk[v].pc # "idle"
  /\ \A v \in Workers : chk[v].pc # "idle" => chk[v].rid # rid
  /\ queue[rid] > 0
  /\ queue' = [queue EXCEPT ![rid] = @ - 1]
  /\ IF Exists(rid) /\ routes[rid].status = MONITORING
     THEN chk' = [chk EXCEPT ![w] = LoadedCheck(rid)]
     ELSE UNCHANGED chk
  /\ UNCHANGED <<registry, accounts, now, req, sched, ticks, sweep, outbox, mail, cache, found>>

\* checks whatever row the id has
CheckFetchRouteAnyStatus(w, rid) ==
  /\ chk[w].pc = "idle"
  /\ \A v \in Workers : v < w => chk[v].pc # "idle"
  /\ queue[rid] > 0
  /\ queue' = [queue EXCEPT ![rid] = @ - 1]
  /\ IF Exists(rid)
     THEN chk' = [chk EXCEPT ![w] = LoadedCheck(rid)]
     ELSE UNCHANGED chk
  /\ UNCHANGED <<registry, accounts, now, req, sched, ticks, sweep, outbox, mail, cache, found>>

\* a worker (the idle workers are alike: the first one) takes a queued task: db.get(MonitoredRoute, route_id); the unit
\* ends at once when there is no row or the row is not MONITORING
CheckFetchRoute(w, rid) ==
  /\ chk[w].pc = "idle"
  /\ \A v \in Workers : v < w => chk[v].pc # "idle"
  /\ queue[rid] > 0
  /\ queue' = [queue EXCEPT ![rid] = @ - 1]
  /\ IF Exists(rid) /\ routes[rid].status = MONITORING
     THEN chk' = [chk EXCEPT ![w] = LoadedCheck(rid)]
     ELSE UNCHANGED chk
  /\ UNCHANGED <<registry, accounts, now, req, sched, ticks, sweep, outbox, mail, cache, found>>

\* puts the task back in the queue when the check reports no seats
CheckAvailabilityRequeues(w, resp) ==
  /\ chk[w].pc = "c_check"
  /\ LET out == check_route_availability_sync(resp) IN
       IF ~out.raised /\ out.is_available
       THEN /\ chk' = [chk EXCEPT ![w].pc = "c_notify"]
            /\ UNCHANGED queue
       ELSE /\ chk' = [chk EXCEPT ![w] = IdleCheck]
            /\ queue' = [queue EXCEPT ![chk[w].rid] = @ + 1]
  /\ UNCHANGED <<registry, accounts, now, req, sched, ticks, sweep,
                 outbox, mail, cache, found>>

\* check_route_availability_sync: no seats and a raised HTTPException both
\* end the unit
CheckAvailability(w, resp) ==
  /\ chk[w].pc = "c_check"
  /\ LET out == check_route_availability_sync(resp) IN
       IF ~out.raised /\ out.is_available
       THEN chk' = [chk EXCEPT ![w].pc = "c_notify"]
       ELSE chk' = [chk EXCEPT ![w] = IdleCheck]
  /\ UNCHANGED <<registry, accounts, now, req, queue, sched, ticks, sweep,
                 outbox, mail, cache, found>>

\* step 1 of a unit that has found seats: get_verified_route_subscribers.
\* With no verified subscriber the unit goes straight on to deactivate.
CheckSubscribers(w) ==
  /\ chk[w].pc = "c_notify"
  /\ LET subscribers == get_verified_route_subscribers(chk[w].rid) IN
       chk' = [chk EXCEPT ![w].pc = IF subscribers = {} THEN "c_mark" ELSE "c_names",
                          ![w].subscribers = subscribers,
                          ![w].todo = subscribers]
  /\ UNCHANGED <<registry, accounts, now, req, queue, sched, ticks, sweep,
                 outbox, mail, found, cache>>

\* sends nothing when the cache gives no list
CheckStationNamesNeedsCache(w, redis_ok) ==
  /\ chk[w].pc = "c_names"
  /\ LET cached_locations == get_locations_from_cache(redis_ok) IN
       chk' = [chk EXCEPT
                 ![w].pc = IF cached_locations.value THEN "c_send" ELSE "c_mark",
                 ![w].todo = IF cached_locations.value THEN @ ELSE {},
                 ![w].from_station_name =
                    StationName(cached_locations, chk[w].db_route.from_location_id),
                 ![w].to_station_name =
                    StationName(cached_locations,
                                ToString(chk[w].db_route.to_location_id))]
  /\ UNCHANGED <<registry, accounts, now, req, queue, sched, ticks, sweep,
                 outbox, mail, found, cache>>

\* _get_locations_from_cache_sync; the names of the two locations of the
\* loaded route from the cache, f"ID {id}" for an id it does not give
CheckStationNames(w, redis_ok) ==
  /\ chk[w].pc = "c_names"
  /\ LET cached_locations == get_locations_from_cache(redis_ok) IN
       chk' = [chk EXCEPT
                 ![w].pc = "c_send",
                 ![w].from_station_name =
                    StationName(cached_locations, chk[w].db_route.from_location_id),
                 ![w].to_station_name =
                    StationName(cached_locations,
                                ToString(chk[w].db_route.to_location_id))]
  /\ UNCHANGED <<registry, accounts, now, req, queue, sched, ticks, sweep,
                 outbox, mail, found, cache>>

\* One iteration of the loop over subscribers (the SELECT has no ORDER BY:
\* they come in any order): send_notification_email.delay publishes the
\* message of the user, a task with retries = 0.  A publish the broker
\* refuses raises: the except Exception clause ends the unit
\* (UNEXPECTED_ERROR), the subscribers not yet reached get no message and
\* deactivate_route_sync is not called.
CheckNotify(w, u, publishFails) ==
  /\ chk[w].pc = "c_send"
  /\ u \in chk[w].todo
  /\ LET rid == chk[w].rid
         rest == chk[w].todo \ {u} IN
       IF publishFails
       THEN /\ UNCHANGED <<outbox, mail>>
            /\ chk' = [chk EXCEPT ![w] = IdleCheck]
       ELSE /\ outbox' = [outbox EXCEPT ![<<rid, u>>] = @ + 1]
            /\ mail' = [mail EXCEPT ![<<rid, u>>].queued[0] = @ + 1]
            /\ chk' = [chk EXCEPT ![w].todo = rest,
                                  ![w].pc = IF rest = {} THEN "c_mark" ELSE "c_send"]
  /\ UNCHANGED <<registry, accounts, now, req, queue, sched, ticks, sweep,
                 found, cache>>

\* deactivate_route_sync: the status the row has after the call.  loaded is
\* the status the Session holds for the route object ("NONE" when the
\* Session has not loaded it: the SELECT then reads the row); the SELECT
\* does not refresh a loaded object.
deactivate_route_sync(rid, loaded) ==
  LET seen == IF loaded = "NONE" THEN routes[rid].status ELSE loaded IN
    IF seen = MONITORING THEN FOUND ELSE routes[rid].status

\* leaves the route as it is when there was nobody to notify
CheckMarkFoundIfNotified(w, commitFails) ==
  /\ chk[w].pc = "c_mark"
  /\ LET rid == chk[w].rid IN
       IF Exists(rid) /\ ~commitFails /\ chk[w].subscribers # {}
       THEN /\ routes' = [routes EXCEPT ![rid].status = deactivate_route_sync(rid, MONITORING)]
            /\ found' = [found EXCEPT ![rid] =
                           IF routes[rid].status = MONITORING /\ routes'[rid].status = FOUND
                           THEN @ + 1 ELSE @]
       ELSE UNCHANGED <<routes, found>>
  /\ chk' = [chk EXCEPT ![w] = IdleCheck]
  /\ UNCHANGED <<nextId, subs, accounts, now, req, queue, sched, ticks, sweep,
                 outbox, mail, cache>>

\* step 3 of the unit: deactivate_route_sync in the unit's Session, which
\* loaded the route as MONITORING in CheckFetchRoute.  No row: logged.  A
\* failed commit is rolled back and re-raised (the unit ends UNEXPECTED_ERROR).
CheckMarkFound(w, commitFails) ==
  /\ chk[w].pc = "c_mark"
  /\ LET rid == chk[w].rid IN
       IF Exists(rid) /\ ~commitFails
       THEN /\ routes' = [routes EXCEPT ![rid].status = deactivate_route_sync(rid, MONITORING)]
            /\ found' = [found EXCEPT ![rid] =
                           IF routes[rid].status = MONITORING /\ routes'[rid].status = FOUND
                           THEN @ + 1 ELSE @]
       ELSE UNCHANGED <<routes, found>>
  /\ chk' = [chk EXCEPT ![w] = IdleCheck]
  /\ UNCHANGED <<nextId, subs, accounts, now, req, queue, sched, ticks, sweep,
                 outbox, mail, cache>>

\* ------------------------------------------------- send_notification_email
NoMail == [queued |-> [r \in 0..max_retries |-> 0], sent |-> 0, failed |-> 0]

\* One execution of a send_notification_email task whose request.retries is
\* retries: SENT when _send_email_sync returns True; else the exception
\* raised makes autoretry_for call self.retry, which puts the task back with
\* retries + 1 unless retries has reached max_retries, when the task fails.
SendNotificationEmail(rid, u, retries, success) ==
  /\ mail[<<rid, u>>].queued[retries] > 0
  /\ mail' = [mail EXCEPT ![<<rid, u>>] =
                IF success
                THEN [@ EXCEPT !.queued[retries] = @ - 1, !.sent = @ + 1]
                ELSE IF retries < max_retries
                THEN [@ EXCEPT !.queued[retries] = @ - 1, !.queued[retries + 1] = @ + 1]
                ELSE [@ EXCEPT !.queued[retries] = @ - 1, !.failed = @ + 1]]
  /\ UNCHANGED <<registry, accounts, now, req, queue, chk, sched, ticks, sweep,
                 outbox, found, cache>>

\* ----------------------------------------------------- expire_past_routes
\* expired_count: the local of this name
IdleSweep == [pc |-> "idle", ids |-> {}, selected |-> {}, expired_count |-> 0]

\* passes over the FOUND routes
ExpireSelectMonitoringOnly ==
  /\ sweep.pc = "idle"
  /\ LET ids == {i \in RouteIds : /\ Exists(i)
                                  /\ routes[i].status = MONITORING
                                  /\ routes[i].departure_datetime < now} IN
       IF ids = {} THEN UNCHANGED sweep
       ELSE sweep' = [pc |-> "expire", ids |-> ids, selected |-> ids,
                      expired_count |-> 0]
  /\ UNCHANGED <<registry, accounts, now, req, queue, chk, sched, ticks,
                 outbox, mail, cache, found>>

\* takes a departure at now for a past one
ExpireSelectDeparting ==
  /\ sweep.pc = "idle"
  /\ LET ids == {i \in RouteIds : /\ Exists(i)
                                  /\ routes[i].status # EXPIRED
                                  /\ routes[i].departure_datetime <= now} IN
       IF ids = {} THEN UNCHANGED sweep
       ELSE sweep' = [pc |-> "expire", ids |-> ids, selected |-> ids,
                      expired_count |-> 0]
  /\ UNCHANGED <<registry, accounts, now, req, queue, chk, sched, ticks,
                 outbox, mail, cache, found>>

\* SELECT the routes that are not EXPIRED and whose departure is before now
\* (routes_to_expire: selected, kept until the next tick selects; ids: those
\* the loop has not reached yet)
ExpireSelect ==
  /\ sweep.pc = "idle"
  /\ LET ids == {i \in RouteIds : /\ Exists(i)
                                  /\ routes[i].status # EXPIRED
                                  /\ routes[i].departure_datetime < now} IN
       IF ids = {} THEN UNCHANGED sweep
       ELSE sweep' = [pc |-> "expire", ids |-> ids, selected |-> ids,
                      expired_count |-> 0]
  /\ UNCHANGED <<registry, accounts, now, req, queue, chk, sched, ticks,
                 outbox, mail, cache, found>>

\* expire_route_sync: the status the row has after the call
expire_route_sync(rid) == EXPIRED

\* One iteration of the loop over routes_to_expire (in any order).
\* expire_route_sync returns the route after its commit, and None for an id
\* without a row: the loop logs and goes on.  A failed commit is rolled back
\* and re-raised by expire_route_sync: the exception leaves the loop, and the
\* except clause of the task ends the tick.  The Session expires its objects
\* at a commit (expire_on_commit), so after the first commit of the tick
\* route.id of an object whose row has been deleted raises
\* ObjectDeletedError, which ends the tick the same way.
ExpireRoute(rid, commitFails) ==
  /\ sweep.pc = "expire"
  /\ rid \in sweep.ids
  /\ LET raised == IF Exists(rid) THEN commitFails ELSE sweep.expired_count > 0
         rest == sweep.ids \ {rid} IN
       /\ IF Exists(rid) /\ ~raised
          THEN routes' = [routes EXCEPT ![rid].status = expire_route_sync(rid)]
          ELSE UNCHANGED routes
       /\ sweep' = IF raised \/ rest = {}
                   THEN [IdleSweep EXCEPT !.selected = sweep.selected]
                   ELSE [sweep EXCEPT !.ids = rest,
                                      !.expired_count = IF Exists(rid) THEN @ + 1 ELSE @]
  /\ UNCHANGED <<nextId, subs, accounts, now, req, queue, chk, sched, ticks,
                 outbox, mail, cache, found>>

\* ------------------------------------------------------------------ Init
\* everything but the store and the clock: no request, no task, nothing queued
InitTasks ==
  /\ req = [p \in Procs |-> Idle]
  /\ queue = [i \in RouteIds |-> 0]
  /\ chk = [w \in Workers |-> IdleCheck]
  /\ sched = [s \in Scheds |-> IdleSched]
  /\ ticks = 0
  /\ sweep = IdleSweep
  /\ outbox = [k \in RouteIds \X Users |-> 0]
  /\ found = [i \in RouteIds |-> 0]
  /\ mail = [k \in RouteIds \X Users |-> NoMail]

\* every user verified, nothing cached
InitContexts ==
  /\ users = Users
  /\ verified = [u \in Users |-> TRUE]
  /\ nextUserId = NumUsers + 1
  /\ cache = CacheAbsent
  /\ InitTasks

\* the empty store
Init ==
  /\ routes = [i \in RouteIds |-> NoRow]
  /\ nextId = 1
  /\ subs = [k \in Users \X RouteIds |-> 0]
  /\ now = 0
  /\ InitContexts

\* A store the engine has been running on: the empty one, or one holding the
\* route of connection 1 (id 1) with a non-empty set of subscribers, in one
\* of the conditions Spec reaches: MONITORING and not yet stamped, FOUND
\* since the tick at time 0 (now 1), EXPIRED by a sweep after its departure.
FirstKey == CHOOSE k \in SegmentKeys : k.to_location_id = 1

InitStore ==
  \/ Init
  \/ /\ \E S \in (SUBSET Users) \ {{}} :
          subs = [k \in Users \X RouteIds |-> IF k[2] = 1 /\ k[1] \in S THEN 1 ELSE 0]
     /\ \E c \in {[status |-> MONITORING, last |-> NULL, t |-> 0],
                  [status |-> FOUND, last |-> 0, t |-> 1],
                  [status |-> EXPIRED, last |-> NULL, t |-> DepartureOf(FirstKey) + 1]} :
          /\ routes = [i \in RouteIds |->
                         IF i = 1
                         THEN [MonitoredRoute(FirstKey, DepartureOf(FirstKey))
                                 EXCEPT !.status = c.status, !.last_checked_at = c.last]
                         ELSE NoRow]
          /\ now = c.t
     /\ nextId = 2
     /\ InitContexts

MonitorStep(p) ==
  \/ \E u \in Users, key \in SegmentKeys : StartMonitor(p, u, key)
  \/ \E resp \in UpstreamResponses : MonitorCheck(p, resp)
  \/ GetOrCreateSelect(p)
  \/ GetOrCreateReactivate(p)
  \/ GetOrCreateRefresh(p)
  \/ CreateRouteInternal(p)
  \/ CreateRouteRefresh(p)
  \/ CreateSubscriptionSelect(p)
  \/ CreateSubscriptionInsert(p)
  \/ CreateSubscriptionRefresh(p)
  \/ CreateSubscriptionReselect(p)

CancelStep(p) ==
  \/ \E u \in Users, rid \in RouteIds : StartCancel(p, u, rid)
  \/ DeleteUserSubscription(p)
  \/ CountSubscriptions(p)
  \/ DeleteMonitoredRoute(p)

\* persistence failures met by a request
FailureStep(p) == CreateSubscriptionCommitFails(p)

RestartStep(p) ==
  \/ \E u \in Users, rid \in RouteIds : StartRestart(p, u, rid)
  \/ RestartGetRoute(p)
  \/ RestartVerify(p)
  \/ \E resp \in UpstreamResponses : RestartCheck(p, resp)
  \/ UpdateRouteStatusAndLastChecked(p)
  \/ UpdateRouteRefresh(p)

WorkerStep ==
  \/ \E s \in Scheds : ScheduleSelect(s) \/ ScheduleStamp(s)
  \/ \E s \in Scheds, rid \in RouteIds, f \in BOOLEAN : ScheduleDispatch(s, rid, f)
  \/ \E w \in Workers, rid \in RouteIds : CheckFetchRoute(w, rid)
  \/ \E w \in Workers, resp \in UpstreamResponses : CheckAvailability(w, resp)
  \/ \E w \in Workers : CheckSubscribers(w)
  \/ \E w \in Workers, redis_ok \in BOOLEAN : CheckStationNames(w, redis_ok)
  \/ \E w \in Workers, u \in Users, f \in BOOLEAN : CheckNotify(w, u, f)
  \/ \E w \in Workers, f \in BOOLEAN : CheckMarkFound(w, f)
  \/ ExpireSelect
  \/ \E rid \in RouteIds, f \in BOOLEAN : ExpireRoute(rid, f)

Next ==
  \/ \E p \in Procs : MonitorStep(p) \/ CancelStep(p) \/ RestartStep(p) \/ FailureStep(p)
  \/ WorkerStep
  \/ Tick

Spec == Init /\ [][Next]_vars

\* The request-serving context alone, on any store.
NextRegistry ==
  \E p \in Procs : MonitorStep(p) \/ CancelStep(p) \/ RestartStep(p) \/ FailureStep(p)

SpecRegistry == InitStore /\ [][NextRegistry]_vars

\* Monitor requests alone, on any store.
NextMonitor == \E p \in Procs : MonitorStep(p)

SpecMonitor == InitStore /\ [][NextMonitor]_vars

\* The Sweeper and the clock alone, on a store of routes of any status and
\* departure, each with a subscriber; a route that is EXPIRED has departed.
SeedKey(i) == [regiojet_route_id |-> "R1", from_location_id |-> "A", to_location_id |-> i]

InitSweep ==
  /\ now \in 0..MaxTime
  /\ \E f \in [RouteIds -> {[status |-> "ABSENT", dep |-> 0]}
                              \cup [status : RouteStatusEnum, dep : 0..MaxTime]] :
       /\ \A i \in RouteIds : f[i].status = EXPIRED => f[i].dep < now
       /\ routes = [i \in RouteIds |->
                      IF f[i].status = "ABSENT" THEN NoRow
                      ELSE [MonitoredRoute(SeedKey(i), f[i].dep)
                              EXCEPT !.status = f[i].status]]
       /\ subs = [k \in Users \X RouteIds |->
                    IF k[1] = 1 /\ f[k[2]].status # "ABSENT" THEN 1 ELSE 0]
  /\ nextId = MaxRouteId + 1
  /\ InitContexts

\* (the commits of the tick succeed)
NextSweep ==
  \/ ExpireSelect
  \/ \E rid \in RouteIds : ExpireRoute(rid, FALSE)
  \/ Tick

SpecSweep == InitSweep /\ [][NextSweep]_vars

\* The Sweeper and the clock, with commits that may fail.
NextSweepFailure ==
  \/ ExpireSelect
  \/ \E rid \in RouteIds, commitFails \in BOOLEAN : ExpireRoute(rid, commitFails)
  \/ Tick

SpecSweepFailure == InitSweep /\ [][NextSweepFailure]_vars

\* The Sweeper under fair ticks (celery beat starts expire_past_routes every
\* ROUTE_EXPIRATION_CHECK_SCHEDULE_INTERVAL_SECONDS, and a started tick runs
\* on; its commits succeed), while monitor and restart requests keep arriving.
NextExpiry ==
  \/ ExpireSelect
  \/ \E rid \in RouteIds : ExpireRoute(rid, FALSE)
  \/ Tick
  \/ \E p \in Procs : MonitorStep(p) \/ RestartStep(p) \/ ServeNext(p)

SpecExpiry ==
  /\ InitStore
  /\ [][NextExpiry]_vars
  /\ WF_vars(ExpireSelect)
  /\ \A rid \in RouteIds : WF_vars(ExpireRoute(rid, FALSE))

\* The background-worker context alone (Scheduler, check units, Sweeper) and
\* the clock, on a store of routes of any status.  The broker may refuse a
\* publish, a commit of the Sweeper or of mark_found may fail.
\* the stores of InitSweep whose routes all depart at time 1, between the
\* first and the last reading of the clock
InitWorker ==
  /\ InitSweep
  /\ \A i \in RouteIds : Exists(i) => routes[i].departure_datetime = 1

NextWorker == WorkerStep \/ Tick

SpecWorker == InitWorker /\ [][NextWorker]_vars

\* The background-worker context while the upstream has seats for every
\* connection (a check unit that gets to its availability check notifies),
\* and one cancel request of the subscriber; the commits succeed and the
\* broker takes what is published.
SeatResponses == {r \in UpstreamResponses : r.kind = "object" /\ r.freeSeatsCount > 0}

NextSeats ==
  \/ \E s \in Scheds : ScheduleSelect(s) \/ ScheduleStamp(s)
  \/ \E s \in Scheds, rid \in RouteIds : ScheduleDispatch(s, rid, FALSE)
  \/ \E w \in Workers, rid \in RouteIds : CheckFetchRoute(w, rid)
  \/ \E w \in Workers, resp \in SeatResponses : CheckAvailability(w, resp)
  \/ \E w \in Workers : CheckSubscribers(w)
  \/ \E w \in Workers, redis_ok \in BOOLEAN : CheckStationNames(w, redis_ok)
  \/ \E w \in Workers, u \in Users : CheckNotify(w, u, FALSE)
  \/ \E w \in Workers : CheckMarkFound(w, FALSE)
  \/ ExpireSelect
  \/ \E rid \in RouteIds : ExpireRoute(rid, FALSE)
  \/ \E rid \in RouteIds : StartCancel(1, 1, rid)
  \/ DeleteUserSubscription(1)
  \/ CountSubscriptions(1)
  \/ DeleteMonitoredRoute(1)

SpecSeats == InitWorker /\ [][NextSeats]_vars

\* The fan-out of the notifications.  The store is the one a Scheduler tick
\* at time 0 has left: MONITORING routes that have subscribers, stamped, the
\* check unit of each of them queued; some users may have lost their
\* verification to the admin; the cache holds any of the values it can hold:
\* none, one that does not decode, the directory of a listing.
CacheSeeds ==
  {CacheAbsent, CacheGarbage}
    \cup {CacheList(parse_locations_response(JsonList(<<CountryObject(JsonList(<<c>>))>>)).value) :
            c \in {GoodCity, CityObject(<<10>>, <<"Brno">>, JsonList(<<>>))}}

InitNotify ==
  /\ now = 0
  /\ \E f \in [RouteIds -> SUBSET Users] :
       /\ routes = [i \in RouteIds |->
                      IF f[i] = {} THEN NoRow
                      ELSE [MonitoredRoute(SeedKey(i), MaxTime) EXCEPT !.last_checked_at = 0]]
       /\ subs = [k \in Users \X RouteIds |-> IF k[1] \in f[k[2]] THEN 1 ELSE 0]
       /\ queue = [i \in RouteIds |-> IF f[i] = {} THEN 0 ELSE 1]
  /\ nextId = MaxRouteId + 1
  /\ users = Users
  /\ verified \in [Users -> BOOLEAN]
  /\ nextUserId = NumUsers + 1
  /\ cache \in CacheSeeds
  /\ req = [p \in Procs |-> Idle]
  /\ chk = [w \in Workers |-> IdleCheck]
  /\ sched = [s \in Scheds |-> IdleSched]
  /\ ticks = 1
  /\ sweep = IdleSweep
  /\ outbox = [k \in RouteIds \X Users |-> 0]
  /\ found = [i \in RouteIds |-> 0]
  /\ mail = [k \in RouteIds \X Users |-> NoMail]

\* a check unit whose commits succeed; the broker may refuse a publish
CheckUnitStep ==
  \/ \E w \in Workers, rid \in RouteIds : CheckFetchRoute(w, rid)
  \/ \E w \in Workers, resp \in UpstreamResponses : CheckAvailability(w, resp)
  \/ \E w \in Workers : CheckSubscribers(w)
  \/ \E w \in Workers, redis_ok \in BOOLEAN : CheckStationNames(w, redis_ok)
  \/ \E w \in Workers, u \in Users, publishFails \in BOOLEAN : CheckNotify(w, u, publishFails)
  \/ \E w \in Workers : CheckMarkFound(w, FALSE)

\* the check units and the deliveries of what they enqueue
NextFanout ==
  \/ CheckUnitStep
  \/ \E rid \in RouteIds, u \in Users, retries \in 0..max_retries, success \in BOOLEAN :
       SendNotificationEmail(rid, u, retries, success)

SpecFanout == InitNotify /\ [][NextFanout]_vars

\* the check units, while the admin changes verifications and the cached
\* directory expires
NextNotify ==
  \/ CheckUnitStep
  \/ \E u \in Users, b \in BOOLEAN : AdminSetVerified(u, b)
  \/ CacheExpire

SpecNotify == InitNotify /\ [][NextNotify]_vars

\* The Scheduler and the check units while the upstream reports no seats: a
\* seat count of zero, a body without the count, an error status, a timeout,
\* a connection error.  The store is the one of InitNotify.
NoSeatResponses == UpstreamResponses \ SeatResponses

NextNoSeats ==
  \/ \E s \in Scheds : ScheduleSelect(s) \/ ScheduleStamp(s)
  \/ \E s \in Scheds, rid \in RouteIds, publishFails \in BOOLEAN :
       ScheduleDispatch(s, rid, publishFails)
  \/ \E w \in Workers, rid \in RouteIds : CheckFetchRoute(w, rid)
  \/ \E w \in Workers, resp \in NoSeatResponses : CheckAvailability(w, resp)
  \/ Tick

SpecNoSeats == InitNotify /\ [][NextNoSeats]_vars

\* The Scheduler and the check units under fair scheduling, on the store of
\* InitNotify: celery beat starts every tick and a started tick runs on; a
\* queued task is taken when a worker is free; the units of every worker but
\* the first run on.  The units of the first worker may stop at any point
\* and never go on.  The broker takes the check units the ticks publish.
StalledWorker == 1

NextStall ==
  \/ \E s \in Scheds : ScheduleSelect(s) \/ ScheduleStamp(s)
  \/ \E s \in Scheds, rid \in RouteIds : ScheduleDispatch(s, rid, FALSE)
  \/ CheckUnitStep

SpecStall ==
  /\ InitNotify
  /\ [][NextStall]_vars
  /\ WF_vars(\E s \in Scheds : ScheduleSelect(s))
  /\ WF_vars(\E s \in Scheds : ScheduleStamp(s))
  /\ WF_vars(\E s \in Scheds, rid \in RouteIds : ScheduleDispatch(s, rid, FALSE))
  /\ \A rid \in RouteIds : WF_vars(\E w \in Workers : CheckFetchRoute(w, rid))
  /\ \A w \in Workers \ {StalledWorker} :
       /\ WF_vars(\E resp \in UpstreamResponses : CheckAvailability(w, resp))
       /\ WF_vars(CheckSubscribers(w))
       /\ WF_vars(\E redis_ok \in BOOLEAN : CheckStationNames(w, redis_ok))
       /\ WF_vars(\E u \in Users, publishFails \in BOOLEAN : CheckNotify(w, u, publishFails))
       /\ WF_vars(CheckMarkFound(w, FALSE))

\* The location directory alone: GET /locations requests, every answer of
\* the upstream, Redis failing or not, and the expiry of the cached value.
LocationsStep(p) ==
  \/ StartLocations(p)
  \/ \E redis_ok \in BOOLEAN : LocationsFromCache(p, redis_ok)
  \/ \E resp \in LocationResponses, redis_ok \in BOOLEAN : LocationsRefresh(p, resp, redis_ok)

NextLocations == (\E p \in Procs : LocationsStep(p)) \/ CacheExpire

SpecLocations == Init /\ [][NextLocations]_vars

\* The cached directory read by GET /locations when the key holds any value:
\* what this program stored, what another version of it stored under the
\* same key (entries of a type this schema does not know, entries that are
\* not objects), a value that is not a list, a value that is not JSON.  Redis
\* answers the reads.
CachedBrno == ParsedLocation(10, "Brno", "CITY")
CachedStation == ParsedLocation(1, "Brno hl.n.", "STATION")
CachedRegion == [CachedBrno EXCEPT !.type = "REGION"]

CacheValues ==
  {CacheAbsent, CacheGarbage, CacheOther, CacheList(<<>>)}
    \cup {CacheList(<<x>>) : x \in {CachedBrno, CachedRegion, JsonOther}}
    \cup {CacheList(<<CachedBrno, x>>) : x \in {CachedStation, CachedRegion, JsonOther}}
    \cup {CacheList(<<x, CachedBrno, CachedStation>>) : x \in {CachedRegion, JsonOther}}
    \cup {CacheList(<<CachedBrno, CachedStation, x>>) : x \in {CachedRegion, JsonOther}}

InitCacheRead ==
  /\ routes = [i \in RouteIds |-> NoRow]
  /\ nextId = 1
  /\ subs = [k \in Users \X RouteIds |-> 0]
  /\ now = 0
  /\ users = Users
  /\ verified = [u \in Users |-> TRUE]
  /\ nextUserId = NumUsers + 1
  /\ cache \in CacheValues
  /\ InitTasks

NextCacheRead ==
  \/ \E p \in Procs : StartLocations(p) \/ LocationsFromCache(p, TRUE)
  \/ \E p \in Procs, resp \in LocationResponses, redis_ok \in BOOLEAN :
       LocationsRefresh(p, resp, redis_ok)
  \/ CacheExpire

SpecCacheRead == InitCacheRead /\ [][NextCacheRead]_vars

\* The monitor requests while the admin works on the three tables and
\* users register and confirm their addresses, from the empty database: no
\* route, no subscription, no user.  The forms the admin submits: any
\* segment and status, the departure of the connection, last_checked_at
\* left empty.
AdminRouteForms ==
  {AdminRouteForm(key, DepartureOf(key), status, last) :
     key \in SegmentKeys, status \in RouteStatusEnum, last \in {NULL}}

AdminStep ==
  \/ \E row \in AdminRouteForms : AdminCreateRoute(row)
  \/ \E rid \in RouteIds, row \in AdminRouteForms : AdminEditRoute(rid, row)
  \/ \E rid \in RouteIds : AdminDeleteRoute(rid)
  \/ \E u \in Users, rid \in RouteIds : AdminCreateSubscription(u, rid)
  \/ \E u, v \in Users, rid, rid2 \in RouteIds : AdminEditSubscription(u, rid, v, rid2)
  \/ \E u \in Users, rid \in RouteIds : AdminDeleteSubscription(u, rid)
  \/ \E u \in Users, is_verified \in BOOLEAN : AdminSetVerified(u, is_verified)
  \/ \E u \in Users : AdminDeleteUser(u)

AccountStep ==
  \/ \E emailTaken \in BOOLEAN : RegisterUser(emailTaken)
  \/ \E u \in Users : ConfirmEmail(u)

InitAdmin ==
  /\ routes = [i \in RouteIds |-> NoRow]
  /\ nextId = 1
  /\ subs = [k \in Users \X RouteIds |-> 0]
  /\ now = 0
  /\ users = {}
  /\ verified = [u \in Users |-> FALSE]
  /\ nextUserId = 1
  /\ cache = CacheAbsent
  /\ InitTasks

NextAdmin == (\E p \in Procs : MonitorStep(p)) \/ AdminStep \/ AccountStep

SpecAdmin == InitAdmin /\ [][NextAdmin]_vars

\* Cancel requests whose statements and commits may fail, on any store.
NextCancelFailure == \E p \in Procs : CancelStep(p) \/ CancelStepFails(p)

SpecCancelFailure == InitStore /\ [][NextCancelFailure]_vars

\* Monitor requests while the upstream is failing: every availability check
\* meets a timeout, a connection error or a status other than 404.
MonitorStepOutage(p) ==
  \/ \E u \in Users, key \in SegmentKeys : StartMonitor(p, u, key)
  \/ \E resp \in {r \in UpstreamResponses : UpstreamFailure(r)} : MonitorCheck(p, resp)
  \/ GetOrCreateSelect(p)
  \/ GetOrCreateReactivate(p)
  \/ GetOrCreateRefresh(p)
  \/ CreateRouteInternal(p)
  \/ CreateRouteRefresh(p)
  \/ CreateSubscriptionSelect(p)
  \/ CreateSubscriptionInsert(p)
  \/ CreateSubscriptionRefresh(p)
  \/ CreateSubscriptionReselect(p)

NextOutage == \E p \in Procs : MonitorStepOutage(p)

SpecOutage == InitStore /\ [][NextOutage]_vars

\* The checker alone: calls of both versions on every upstream response.
NextChecker ==
  \E p \in Procs, resp \in UpstreamResponses :
    CallChecker(p, resp) \/ CallCheckerSync(p, resp)

SpecChecker == Init /\ [][NextChecker]_vars

\* The requests one after the other: a request starts when no other is running.
NoneRunning == \A q \in Procs : req[q].pc \in {"idle", "done"}

StartRequest(p) ==
  \/ \E u \in Users, key \in SegmentKeys : StartMonitor(p, u, key)
  \/ \E u \in Users, rid \in RouteIds : StartCancel(p, u, rid)
  \/ \E u \in Users, rid \in RouteIds : StartRestart(p, u, rid)

\* (run alone, the INSERT of create_user_subscription meets no conflict)
RunRequest(p) ==
  \/ \E resp \in UpstreamResponses : MonitorCheck(p, resp)
  \/ GetOrCreateSelect(p)
  \/ GetOrCreateReactivate(p)
  \/ GetOrCreateRefresh(p)
  \/ CreateRouteInternal(p)
  \/ CreateRouteRefresh(p)
  \/ CreateSubscriptionSelect(p)
  \/ CreateSubscriptionInsert(p)
  \/ CreateSubscriptionRefresh(p)
  \/ DeleteUserSubscription(p)
  \/ CountSubscriptions(p)
  \/ DeleteMonitoredRoute(p)
  \/ RestartGetRoute(p)
  \/ RestartVerify(p)
  \/ \E resp \in UpstreamResponses : RestartCheck(p, resp)
  \/ UpdateRouteStatusAndLastChecked(p)
  \/ UpdateRouteRefresh(p)

NextSeq == \E p \in Procs : (NoneRunning /\ StartRequest(p)) \/ RunRequest(p)

SpecSeq == InitStore /\ [][NextSeq]_vars

\* ------------------------------------------------------------- properties
InFlight(w) == chk[w].pc # "idle"

\* a unit stands between its first enqueue and its mark_found
Notifying(rid) ==
  \E w \in Workers : chk[w].pc \in {"c_send", "c_mark"} /\ chk[w].rid = rid

\* C1: for a route whose seats were discovered, no subscriber has more
\* notifications enqueued than the route has had MONITORING->FOUND episodes
\* (observed when no unit stands between its enqueues and its mark_found).
C1_OneNotificationPerDiscovery ==
  \A rid \in RouteIds, u \in Users :
    (found[rid] >= 1 /\ ~Notifying(rid)) => outbox[<<rid, u>>] <= found[rid]

\* C2: at most one check unit is in flight for a route id.
C2_OneCheckInFlightPerRoute ==
  \A w1, w2 \in Workers :
    (w1 # w2 /\ InFlight(w1) /\ InFlight(w2)) => chk[w1].rid # chk[w2].rid

\* C3: at most one MonitoredRoute row per segment key.
C3_UniqueSegmentKey ==
  \A key \in SegmentKeys : Cardinality(RowsWithKey(key)) <= 1

\* a monitor request lost the INSERT race of get_or_create to the request of
\* another user, and the row of that request is there
C3_Witness ==
  \E p, q \in Procs :
    /\ req[p].pc = "done" /\ req[p].last = "m_insert" /\ req[p].res = "error"
    /\ q # p /\ req[q].op = "monitor" /\ req[q].key = req[p].key
    /\ req[q].user # req[p].user
    /\ RowsWithKey(req[p].key) = {req[q].rid}

\* C4: get_or_create never surfaces the uniqueness conflict of a lost INSERT,
\* and two calls with the same segment key return the same route id.
C4_GetOrCreateToleratesConflict ==
  /\ \A p \in Procs : req[p].pc = "done" => req[p].last # "m_insert"
  /\ \A p, q \in Procs :
       (req[p].key = req[q].key /\ req[p].rid # 0 /\ req[q].rid # 0 /\ req[p].op = "monitor"
          /\ req[q].op = "monitor")
         => req[p].rid = req[q].rid

\* C5: no step changes the status of an EXPIRED route to MONITORING or FOUND.
C5_ExpiredIsTerminal ==
  [][\A rid \in RouteIds :
       routes[rid].status = EXPIRED => routes'[rid].status \notin {MONITORING, FOUND}]_vars

\* C6: the commit of get_or_create sets an existing row that is not
\* MONITORING to MONITORING and changes nothing else of it, or inserts the
\* row in MONITORING; and when get_or_create returns, the returned object has
\* status MONITORING and is the row of the segment key, its id unchanged.
C6_GetOrCreateReturnsMonitoring ==
  [][\A p \in Procs :
       /\ (req[p].pc = "m_reactivate" /\ req'[p].pc = "m_reactrefresh")
            => /\ req'[p].rid = req[p].rid
               /\ routes'[req[p].rid] = [routes[req[p].rid] EXCEPT !.status = MONITORING]
       /\ (req[p].pc = "m_insert" /\ req'[p].pc = "m_insrefresh")
            => /\ routes[req'[p].rid] = NoRow
               /\ routes'[req'[p].rid] = MonitoredRoute(req[p].key, DepartureOf(req[p].key))
       /\ (req[p].pc \in {"m_goc", "m_reactrefresh", "m_insrefresh"} /\ req'[p].pc = "m_sub")
            => LET rid == req'[p].rid IN
                 /\ req[p].pc # "m_goc" => rid = req[p].rid
                 /\ routes'[rid] # NoRow
                 /\ SegmentOf(routes'[rid]) = req[p].key
                 /\ req'[p].st = MONITORING]_vars

\* C7: mark_found applied to a route that is FOUND or EXPIRED changes nothing.
C7_MarkFoundOnlyFromMonitoring ==
  [][\A w \in Workers :
       (chk[w].pc = "c_mark" /\ chk'[w].pc = "idle"
          /\ routes[chk[w].rid].status \in {FOUND, EXPIRED})
         => routes' = routes]_vars

\* C8: a (user, route) pair has at most one Subscription row; no monitor
\* request fails in add_subscription, and one that ends monitoring-created
\* leaves the pair with its row.
C8_AddSubscriptionIdempotent ==
  /\ \A k \in DOMAIN subs : subs[k] <= 1
  /\ \A p \in Procs :
       (req[p].op = "monitor" /\ req[p].pc = "done")
         => /\ req[p].last \in {"m_sub", "m_subinsert", "m_subreselect"}
                 => req[p].res = "monitoring_created"
            /\ req[p].res = "monitoring_created" => subs[<<req[p].user, req[p].rid>>] = 1

\* an add_subscription lost the INSERT race to a duplicate call and returned the row
C8_Witness ==
  \E p \in Procs :
    /\ req[p].pc = "done" /\ req[p].last = "m_subreselect"
    /\ req[p].res = "monitoring_created"

\* the result of a cancel that has just ended in success, by the tables it
\* met (pre): the route row and every subscription of the route are gone when
\* the caller was the only subscriber; else only the caller's row is gone
CancelOutcome(r, newRoutes, newSubs) ==
  LET rid == r.rid
      mine == <<r.user, rid>>
      others == {v \in Users \ {r.user} : r.pre.subs[<<v, rid>>] > 0} IN
    IF others = {}
    THEN /\ newRoutes = [r.pre.routes EXCEPT ![rid] = NoRow]
         /\ newSubs = [r.pre.subs EXCEPT ![mine] = 0]
    ELSE /\ newRoutes = r.pre.routes
         /\ newSubs = [r.pre.subs EXCEPT ![mine] = 0]

\* C9: a successful cancel by the only subscriber deletes the subscription
\* and the route row; by one of several, only that subscription.
C9_CancelDeletesRouteIffLast ==
  [][\A p \in Procs :
       (req[p].pc # "done" /\ req'[p].pc = "done" /\ req'[p].op = "cancel"
          /\ req'[p].res = "ok")
         => CancelOutcome(req'[p], routes', subs')]_vars

\* one cancel has ended leaving the route to another subscriber, and the
\* cancel of that last subscriber has deleted the route
C9_Witness ==
  \E p, q \in Procs :
    /\ req[p].pc = "done" /\ req[p].op = "cancel" /\ req[p].res = "ok"
    /\ req[p].last = "x_count"
    /\ req[q].pc = "done" /\ req[q].op = "cancel" /\ req[q].res = "ok"
    /\ req[q].last = "x_delroute" /\ req[q].rid = req[p].rid
    /\ ~Exists(req[q].rid)

\* the positions of a request whose next step reads or writes the store
StorePcs ==
  {"m_goc", "m_reactivate", "m_reactrefresh", "m_insert", "m_insrefresh", "m_sub",
   "m_subinsert", "m_subrefresh", "m_subreselect",
   "x_delete", "x_count", "x_delroute", "r_get", "r_sub", "r_update", "r_refresh"}

\* C10: while a cancel stands between its steps, no other request reads or
\* writes the store.
C10_CancelIsAtomic ==
  [][\A p, q \in Procs :
       (p # q /\ req[p].pc \in {"x_count", "x_delroute"} /\ req[q].pc \in StorePcs)
         => req'[q] = req[q]]_vars

\* a request stands between the commits of its operation on the route
MidOperation(rid) ==
  \E p \in Procs :
    /\ req[p].rid = rid
    /\ req[p].pc \in {"m_insrefresh", "m_sub", "m_subinsert", "m_subrefresh",
                      "m_subreselect", "x_count", "x_delroute"}

\* C11: every MonitoredRoute row that no request is in the middle of an
\* operation on is referenced by at least one subscription row.
C11_RouteHasSubscription ==
  \A rid \in RouteIds :
    (Exists(rid) /\ ~MidOperation(rid)) => count_subscriptions_for_route(rid) > 0

\* C12: a cancel for a (user, route) pair that has no subscription row ends
\* not-found, not success, and leaves both tables as they were.
C12_CancelWithoutSubscriptionIsNotFound ==
  [][\A p \in Procs :
       (req[p].pc = "x_delete" /\ req'[p] # req[p]
          /\ subs[<<req[p].user, req[p].rid>>] = 0)
         => /\ req'[p].pc = "done" /\ req'[p].res = "not_found"
            /\ routes' = routes /\ subs' = subs]_vars

\* a cancel ended not-found on a route that another user is subscribed to
C12_Witness ==
  \E p \in Procs :
    /\ req[p].pc = "done" /\ req[p].op = "cancel" /\ req[p].res = "not_found"
    /\ Exists(req[p].rid) /\ count_subscriptions_for_route(req[p].rid) > 0

\* C13: restart by a user without a subscription on the route ends forbidden,
\* by a subscriber on a route that is not FOUND ends conflict; either way no
\* availability check has been made and the store is unchanged.
C13_RestartRejected ==
  [][\A p \in Procs :
       (req[p].pc = "r_sub" /\ req'[p] # req[p])
         => LET u == req[p].user
                rid == req[p].rid IN
              /\ ~HasSub(u, rid) => (req'[p].pc = "done" /\ req'[p].res = "forbidden")
              /\ (HasSub(u, rid) /\ routes[rid].status # FOUND)
                   => (req'[p].pc = "done" /\ req'[p].res = "conflict")
              /\ req'[p].pc = "done"
                   => /\ req'[p].res \in {"forbidden", "conflict"}
                      /\ routes' = routes /\ subs' = subs
              /\ req'[p].pc \in {"done", "r_check"}]_vars

\* one restart was rejected for want of a subscription, another for the
\* status of the route, MONITORING or EXPIRED
C13_Witness ==
  \E p, q \in Procs :
    /\ req[p].pc = "done" /\ req[p].op = "restart" /\ req[p].res = "forbidden"
    /\ req[q].pc = "done" /\ req[q].op = "restart" /\ req[q].res = "conflict"
    /\ routes[req[q].rid].status \in {MONITORING, EXPIRED}

\* C14: the availability check of an accepted restart writes nothing; when it
\* reports seats the request ends not-restarted with the route still FOUND,
\* else the next step takes the route from FOUND to MONITORING and sets
\* last_checked_at to the time of the restart, changing nothing else.
C14_RestartChecksFirst ==
  [][\A p \in Procs :
       /\ (req[p].pc = "r_check" /\ req'[p] # req[p])
            => /\ routes' = routes /\ subs' = subs
               /\ routes[req[p].rid].status = FOUND
               /\ IF req'[p].is_available
                  THEN req'[p].pc = "done" /\ req'[p].res = "not_restarted"
                  ELSE req'[p].pc = "r_update"
       /\ (req[p].pc = "r_update" /\ req'[p] # req[p])
            => LET rid == req[p].rid IN
                 /\ ~req[p].is_available
                 /\ routes[rid].status = FOUND
                 /\ req'[p].pc = "r_refresh"
                 /\ routes' = [routes EXCEPT ![rid].status = MONITORING,
                                            ![rid].last_checked_at = now]
                 /\ subs' = subs
       /\ (req[p].pc = "r_refresh" /\ req'[p] # req[p])
            => /\ req'[p].pc = "done" /\ req'[p].res = "restarted"
               /\ routes' = routes /\ subs' = subs
       /\ (req'[p].op = "restart" /\ req'[p].pc = "done" /\ req[p].pc # "done"
              /\ req'[p].res \in {"restarted", "not_restarted"})
            => req[p].pc \in {"r_check", "r_refresh"}]_vars

\* one restart met seats and left the route FOUND; a later one met none and
\* the route is MONITORING with a new last_checked_at
C14_Witness ==
  \E p, q \in Procs :
    /\ req[p].pc = "done" /\ req[p].res = "not_restarted"
    /\ req[q].pc = "done" /\ req[q].res = "restarted" /\ req[q].rid = req[p].rid
    /\ routes[req[q].rid].status = MONITORING
    /\ routes[req[q].rid].last_checked_at = now /\ now > 0

\* the routes a Sweeper tick run now has to expire
Due ==
  {i \in RouteIds : /\ Exists(i)
                    /\ routes[i].status \in {MONITORING, FOUND}
                    /\ routes[i].departure_datetime < now}

\* C15: a Sweeper tick selects every MONITORING or FOUND route that departed
\* before now, each iteration sets its route to EXPIRED, and when the tick
\* completes every route it selected is EXPIRED.
C15_SweepExpiresDeparted ==
  [][/\ (sweep.pc = "idle" /\ sweep'.pc = "expire")
          => (sweep'.selected = Due /\ sweep'.ids = Due)
     /\ (sweep.pc = "expire" /\ sweep' # sweep)
          => \E rid \in sweep.ids :
               /\ sweep'.ids = sweep.ids \ {rid}
               /\ Exists(rid) => routes'[rid].status = EXPIRED
     /\ (sweep.pc = "expire" /\ sweep'.pc = "idle")
          => \A rid \in sweep.selected :
               routes'[rid] # NoRow => routes'[rid].status = EXPIRED]_vars

\* a tick that selected two routes has expired one and has a FOUND one left
C15_Witness ==
  /\ sweep.pc = "expire"
  /\ \E i \in sweep.selected \ sweep.ids : routes[i].status = EXPIRED
  /\ \E j \in sweep.ids : routes[j].status = FOUND

\* C16: no step of the Sweeper changes a route that has not departed before
\* now or that is EXPIRED, and a tick selects nothing but the routes due: when
\* every departed route is EXPIRED it selects nothing.
C16_SweepLeavesOthers ==
  [][/\ sweep' # sweep
          => \A rid \in RouteIds :
               (Exists(rid) /\ (routes[rid].departure_datetime >= now
                                  \/ routes[rid].status = EXPIRED))
                 => routes'[rid] = routes[rid]
     /\ (sweep.pc = "idle" /\ sweep'.pc = "expire")
          => (sweep'.selected = Due /\ Due # {} /\ routes' = routes)]_vars

\* a tick has expired the routes it selected and is over, and a route that
\* departs now or later is there as it was
C16_Witness ==
  /\ sweep.pc = "idle" /\ sweep.selected # {}
  /\ \A i \in sweep.selected : routes[i].status = EXPIRED
  /\ \E j \in RouteIds \ sweep.selected :
       /\ Exists(j) /\ routes[j].status \in {MONITORING, FOUND}
       /\ routes[j].departure_datetime >= now

CheckerCalls == {"check_route_availability", "check_route_availability_sync"}

\* C17: the checker reports seats exactly for a response that is an object
\* with a seat count above zero; for an array, an object without the seat
\* count, a count of zero and a 404 it returns (False, None) and does not raise.
C17_CheckerFailClosed ==
  \A p \in Procs :
    req[p].op \in CheckerCalls
      => LET resp == req[p].resp IN
           /\ req[p].res = "available"
                <=> (resp.kind = "object" /\ resp.freeSeatsCount > 0)
           /\ req[p].res = "available" => req[p].details = resp.freeSeatsCount
           /\ ( \/ resp.kind \in {"array", "object_without_seats"}
                \/ resp.kind = "object" /\ resp.freeSeatsCount = 0
                \/ resp.kind = "status" /\ resp.code = 404 )
                => (req[p].res = "unavailable" /\ req[p].details = NULL)

\* the checker has answered a 404 with (False, None) and a seat count above
\* zero with (True, details)
C17_Witness ==
  \E p, q \in Procs :
    /\ req[p].op \in CheckerCalls /\ req[p].resp.kind = "status"
    /\ req[p].resp.code = 404 /\ req[p].res = "unavailable"
    /\ req[q].op \in CheckerCalls /\ req[q].res = "available"

\* C18: for a timeout, a connection error and a 4xx/5xx status other than
\* 404 the checker does not return (False, None): it raises.
C18_CheckFailedIsDistinct ==
  \A p \in Procs :
    (req[p].op \in CheckerCalls /\ UpstreamFailure(req[p].resp))
      => req[p].res = "raised"

\* C19: a monitor request ends either available-now, from its check and
\* with the store as it was, or monitoring-created, with the row of its
\* segment MONITORING and the user's subscription on it.
C19_MonitorTwoOutcomes ==
  [][\A p \in Procs :
       (req'[p].op = "monitor" /\ req[p].pc # "done" /\ req'[p].pc = "done")
         => \/ /\ req'[p].res = "available_now"
               /\ req[p].pc = "m_check" /\ req'[p].is_available
               /\ routes' = routes /\ subs' = subs /\ nextId' = nextId
            \/ /\ req'[p].res = "monitoring_created"
               /\ ~req'[p].is_available
               /\ LET rid == req'[p].rid IN
                    /\ routes'[rid] # NoRow
                    /\ SegmentOf(routes'[rid]) = req'[p].key
                    /\ routes'[rid].status = MONITORING
                    /\ subs'[<<req'[p].user, rid>>] = 1]_vars

\* one monitor request ended available-now, another monitoring-created
C19_Witness ==
  \E p, q \in Procs :
    /\ req[p].op = "monitor" /\ req[p].pc = "done" /\ req[p].res = "available_now"
    /\ req[q].op = "monitor" /\ req[q].pc = "done" /\ req[q].res = "monitoring_created"
    /\ routes[req[q].rid].status = MONITORING
    /\ subs[<<req[q].user, req[q].rid>>] = 1

\* C20: while the upstream is failing no monitor request ends
\* monitoring-created, and no route row and no subscription row is created.
C20_FailedCheckCreatesNothing ==
  [][/\ \A p \in Procs : req'[p].res # "monitoring_created"
     /\ \A rid \in RouteIds : routes[rid] = NoRow => routes'[rid] = NoRow
     /\ \A k \in DOMAIN subs : subs'[k] <= subs[k]]_vars

\* two monitor requests of different users for one segment have both ended,
\* neither having met seats
BothMonitored(p, q) ==
  /\ p # q
  /\ req[p].op = "monitor" /\ req[q].op = "monitor"
  /\ req[p].pc = "done" /\ req[q].pc = "done"
  /\ req[p].user # req[q].user /\ req[p].key = req[q].key
  /\ ~req[p].is_available /\ ~req[q].is_available

\* C21: when two users have each made a monitor request for the same segment
\* and no seats were available, both requests ended monitoring-created and
\* the segment has exactly one route row and exactly the two users'
\* subscription rows on it.
C21_TwoUsersOneRoute ==
  \A p, q \in Procs :
    BothMonitored(p, q)
      => /\ req[p].res = "monitoring_created" /\ req[q].res = "monitoring_created"
         /\ Cardinality(RowsWithKey(req[p].key)) = 1
         /\ \A rid \in RowsWithKey(req[p].key) :
              /\ subs[<<req[p].user, rid>>] = 1 /\ subs[<<req[q].user, rid>>] = 1
              /\ count_subscriptions_for_route(rid) = 2

\* the routes a Scheduler tick run now selects
Monitored == {i \in RouteIds : Exists(i) /\ routes[i].status = MONITORING}

\* a step of the dispatch loop of tick s: one check unit is published for a
\* selected id the loop had not reached, which leaves the ids still to
\* reach, and the tick is over when none is left
DispatchesOne(s) ==
  \E i \in sched[s].ids :
    /\ queue' = [queue EXCEPT ![i] = @ + 1]
    /\ sched'[s].ids = sched[s].ids \ {i}
    /\ sched'[s].pc = IF sched[s].ids = {i} THEN "idle" ELSE "dispatch"

\* the broker refused the publish: nothing is queued and the tick is over
DispatchRefused(s) == queue' = queue /\ sched'[s] = IdleSched

\* C22: a Scheduler tick selects exactly the MONITORING routes and, with
\* none, ends having written and dispatched nothing; its one write sets
\* last_checked_at of every selected route to the time of the tick and
\* changes nothing else; then each step of its loop publishes one check unit
\* for a selected id not yet dispatched and for no other route, until every
\* selected id has had its one check unit.  (The loop ends early only at a
\* publish the broker refuses.)
C22_TickStampsAndDispatches ==
  [][\A s \in Scheds :
       /\ (sched[s].pc = "idle" /\ ticks' = ticks + 1 /\ sched'[s] # sched[s])
            => /\ Monitored # {}
               /\ sched'[s] = [pc |-> "stamp", ids |-> Monitored, now |-> now]
               /\ routes' = routes /\ queue' = queue
       /\ (ticks' = ticks + 1 /\ sched' = sched)
            => (Monitored = {} /\ routes' = routes /\ queue' = queue)
       /\ (sched[s].pc = "stamp" /\ sched'[s].pc = "dispatch")
            => LET ids == sched[s].ids IN
                 /\ sched'[s].ids = ids /\ queue' = queue
                 /\ \A i \in ids :
                      routes'[i] = [routes[i] EXCEPT !.last_checked_at = sched[s].now]
                 /\ \A i \in RouteIds \ ids : routes'[i] = routes[i]
       /\ (sched[s].pc = "stamp" /\ sched'[s].pc = "idle")
            => (routes' = routes /\ queue' = queue)
       /\ (sched[s].pc = "dispatch" /\ sched'[s] # sched[s])
            => /\ routes' = routes
               /\ sched[s].ids # {}
               /\ DispatchesOne(s) \/ DispatchRefused(s)]_vars

\* a tick has stamped and dispatched a MONITORING route and passed over a
\* FOUND one, for which nothing is queued
C22_Witness ==
  \E i, j \in RouteIds :
    /\ Exists(i) /\ routes[i].status = MONITORING
    /\ routes[i].last_checked_at = now /\ queue[i] = 1
    /\ Exists(j) /\ routes[j].status = FOUND /\ queue[j] = 0
    /\ found[j] = 0 /\ ticks = 1
    /\ \A s \in Scheds : sched[s].pc = "idle"

\* a worker is free to take a task
WorkerFree == \E w \in Workers : chk[w].pc = "idle"

\* the next step of the check unit of worker w can be taken
UnitCanStep(w) ==
  CASE chk[w].pc = "c_check" -> ENABLED (\E resp \in UpstreamResponses : CheckAvailability(w, resp))
    [] chk[w].pc = "c_notify" -> ENABLED CheckSubscribers(w)
    [] chk[w].pc = "c_names" -> ENABLED (\E redis_ok \in BOOLEAN : CheckStationNames(w, redis_ok))
    [] chk[w].pc = "c_send" -> ENABLED (\E u \in Users : CheckNotify(w, u, FALSE))
    [] chk[w].pc = "c_mark" -> ENABLED (\E f \in BOOLEAN : CheckMarkFound(w, f))
    [] OTHER -> TRUE

\* C23: whatever the other check units are doing, a tick that has selected
\* can write and dispatch, a queued check unit can be started by a free
\* worker and a started one can take its next step; and a step of one check
\* unit, its failure included, changes neither the unit of another worker,
\* nor the tasks queued, nor the row or the notifications of another route.
C23_ChecksAreIndependent ==
  /\ [](/\ \A s \in Scheds :
             /\ sched[s].pc = "stamp" => ENABLED ScheduleStamp(s)
             /\ sched[s].pc = "dispatch"
                  => \A rid \in sched[s].ids : ENABLED ScheduleDispatch(s, rid, FALSE)
        /\ \A rid \in RouteIds :
             (queue[rid] > 0 /\ WorkerFree) => \E w \in Workers : ENABLED CheckFetchRoute(w, rid)
        /\ \A w \in Workers : UnitCanStep(w))
  /\ [][\A w \in Workers :
          (chk[w].pc # "idle" /\ chk'[w] # chk[w])
            => /\ \A v \in Workers \ {w} : chk'[v] = chk[v]
               /\ queue' = queue /\ sched' = sched
               /\ \A rid \in RouteIds \ {chk[w].rid} :
                    /\ routes'[rid] = routes[rid]
                    /\ \A u \in Users : outbox'[<<rid, u>>] = outbox[<<rid, u>>]]_vars

\* the tick that selected two routes is over; the check unit of one of them
\* has not got past its availability check, and the unit of the other has
\* run to its end and marked its route FOUND
C23_Witness ==
  \E w \in Workers, rid \in RouteIds :
    /\ ticks = 1 /\ \A s \in Scheds : sched[s].pc = "idle"
    /\ chk[w].pc = "c_check" /\ chk[w].rid # rid
    /\ routes[chk[w].rid].last_checked_at = now
    /\ Exists(rid) /\ routes[rid].last_checked_at = now
    /\ found[rid] = 1 /\ routes[rid].status = FOUND

\* C24: a check unit whose mark_found meets its route FOUND or EXPIRED, set
\* so by another check unit or by the Sweeper since the unit read it, has
\* enqueued no notification: its snapshot of subscribers is empty (a unit
\* that has come to mark_found has been through its loop, which enqueued a
\* message for every user of the snapshot).
C24_NotifyOnlyOnTransition ==
  [][\A w \in Workers :
       (chk[w].pc = "c_mark" /\ chk'[w].pc = "idle"
          /\ Exists(chk[w].rid) /\ routes[chk[w].rid].status \in {FOUND, EXPIRED})
         => chk[w].subscribers = {}]_vars

\* a step of the loop over the subscribers of the unit of worker w: the
\* message of one subscriber the loop had not reached is enqueued, and no
\* other; mark_found is next when none is left
NotifiesOne(w) ==
  \E u \in chk[w].todo :
    /\ outbox' = [outbox EXCEPT ![<<chk[w].rid, u>>] = @ + 1]
    /\ mail' = [mail EXCEPT ![<<chk[w].rid, u>>].queued[0] = @ + 1]
    /\ chk'[w] = [chk[w] EXCEPT !.todo = @ \ {u},
                                !.pc = IF chk[w].todo = {u} THEN "c_mark" ELSE "c_send"]

\* the broker refused the publish: nothing is enqueued and the unit is over
NotifyRefused(w) == outbox' = outbox /\ mail' = mail /\ chk'[w] = IdleCheck

\* C25: a check unit that has found seats goes to mark_found at once when
\* the route has no verified subscriber, and otherwise when the message of
\* the last of them has been enqueued, never before; up to then the route is
\* as it was; mark_found sets the route FOUND and enqueues nothing more; every
\* step of the unit can always be taken, and no execution of a delivery,
\* failed or not, changes a route.  (The unit ends without mark_found only
\* at a publish the broker refuses.)
C25_MarkFoundAfterEnqueue ==
  /\ [](\A w \in Workers : chk[w].pc # "idle" => UnitCanStep(w))
  /\ [][/\ \A w \in Workers :
            /\ (chk[w].pc = "c_notify" /\ chk'[w] # chk[w])
                 => /\ chk'[w].pc = IF get_verified_route_subscribers(chk[w].rid) = {}
                                    THEN "c_mark" ELSE "c_names"
                    /\ chk'[w].todo = get_verified_route_subscribers(chk[w].rid)
                    /\ routes' = routes /\ found' = found
                    /\ outbox' = outbox /\ mail' = mail
            /\ (chk[w].pc = "c_names" /\ chk'[w] # chk[w])
                 => /\ chk'[w].pc = "c_send" /\ chk'[w].todo = chk[w].todo
                    /\ routes' = routes /\ found' = found
                    /\ outbox' = outbox /\ mail' = mail
            /\ (chk[w].pc = "c_send" /\ chk'[w] # chk[w])
                 => /\ routes' = routes /\ found' = found
                    /\ NotifiesOne(w) \/ NotifyRefused(w)
            /\ (chk[w].pc # "c_mark" /\ chk'[w].pc = "c_mark")
                 => chk'[w].todo = {}
            /\ (chk[w].pc = "c_mark" /\ chk'[w] # chk[w])
                 => /\ chk'[w].pc = "idle"
                    /\ routes'[chk[w].rid].status = FOUND
                    /\ outbox' = outbox /\ mail' = mail
        /\ (mail' # mail /\ chk' = chk) => (routes' = routes /\ found' = found)]_vars

\* one route is FOUND with no verified subscriber and nothing enqueued for
\* it; another is FOUND although the delivery of its notification was given up
C25_Witness ==
  \E i, j \in RouteIds :
    /\ Exists(i) /\ routes[i].status = FOUND /\ found[i] = 1
    /\ count_subscriptions_for_route(i) > 0
    /\ get_verified_route_subscribers(i) = {}
    /\ \A u \in Users : outbox[<<i, u>>] = 0
    /\ Exists(j) /\ routes[j].status = FOUND /\ found[j] = 1
    /\ \E u \in Users : mail[<<j, u>>].failed = 1

\* C26: the snapshot a finding check unit takes is the set of the users who
\* at that moment are verified and hold a subscription on the unit's route;
\* the unit enqueues messages for the users of its snapshot only, whatever
\* has become of their verification or subscription since, one message at a
\* time, and a user leaves the loop with exactly one message enqueued; nobody
\* else and no other route gets a message from the unit.
C26_RecipientsAreVerifiedSubscribers ==
  [][\A w \in Workers :
       /\ (chk[w].pc = "c_notify" /\ chk'[w] # chk[w])
            => /\ chk'[w].subscribers
                    = {u \in Users : subs[<<u, chk[w].rid>>] > 0 /\ verified[u]}
               /\ chk'[w].todo = chk'[w].subscribers
               /\ outbox' = outbox /\ mail' = mail
       /\ (chk[w].pc \in {"c_names", "c_send"} /\ chk'[w] # chk[w] /\ chk'[w].pc # "idle")
            => /\ chk'[w].subscribers = chk[w].subscribers
               /\ chk'[w].todo \subseteq chk[w].todo
               /\ \A rid \in RouteIds, u \in Users :
                    LET sent == outbox'[<<rid, u>>] - outbox[<<rid, u>>]
                        queued == mail'[<<rid, u>>].queued[0] - mail[<<rid, u>>].queued[0] IN
                      /\ sent = queued
                      /\ sent = IF rid = chk[w].rid /\ u \in chk[w].todo \ chk'[w].todo
                                THEN 1 ELSE 0
       /\ (chk[w].pc # "c_mark" /\ chk'[w].pc = "c_mark") => chk'[w].todo = {}
       /\ (chk[w].pc \in {"c_send", "c_mark"} /\ chk'[w].pc = "idle")
            => (outbox' = outbox /\ mail' = mail)]_vars

\* of the two subscribers of a route only the verified one was sent a
\* message; the other, verified since, was sent none for a route it is not
\* subscribed to either
C26_Witness ==
  \E i, j \in RouteIds, u, v \in Users :
    /\ u # v /\ i # j
    /\ HasSub(u, i) /\ HasSub(v, i)
    /\ outbox[<<i, u>>] = 1 /\ outbox[<<i, v>>] = 0
    /\ routes[i].status = FOUND
    /\ HasSub(u, j) /\ ~HasSub(v, j) /\ verified[v]
    /\ outbox[<<j, u>>] = 1 /\ outbox[<<j, v>>] = 0
    /\ routes[j].status = FOUND

\* the cache gives no name for the id: it holds no list, or a list without it
NoCachedName(id) ==
  \/ cache.kind # "list"
  \/ \A i \in DOMAIN cache.locations : cache.locations[i].id # id

\* C27: whatever the cache holds, a check unit that has found seats and
\* taken its snapshot goes on from its look at the cache to the loop with
\* every subscriber of the snapshot still to notify, with the raw id ("ID "
\* and the id) for a location the cache gives no name for; the loop
\* enqueues the messages one by one, and the unit then marks the route FOUND.
C27_CacheMissNeverBlocks ==
  [][\A w \in Workers :
       LET rid == chk[w].rid IN
         /\ (chk[w].pc = "c_names" /\ chk'[w] # chk[w])
              => /\ chk'[w].pc = "c_send"
                 /\ chk'[w].todo = chk[w].subscribers /\ chk'[w].todo # {}
                 /\ NoCachedName(chk[w].db_route.from_location_id)
                      => chk'[w].from_station_name
                           = "ID " \o chk[w].db_route.from_location_id
                 /\ NoCachedName(ToString(chk[w].db_route.to_location_id))
                      => chk'[w].to_station_name
                           = "ID " \o ToString(chk[w].db_route.to_location_id)
         /\ (chk[w].pc = "c_send" /\ chk'[w] # chk[w] /\ chk'[w].pc # "idle")
              => \E u \in chk[w].todo :
                   /\ outbox'[<<rid, u>>] = outbox[<<rid, u>>] + 1
                   /\ mail'[<<rid, u>>].queued[0] = mail[<<rid, u>>].queued[0] + 1
                   /\ chk'[w].todo = chk[w].todo \ {u}
                   /\ chk'[w].pc = "c_mark" <=> chk'[w].todo = {}
         /\ (chk[w].pc = "c_mark" /\ chk'[w] # chk[w])
              => routes'[rid].status = FOUND]_vars

\* a unit has notified with the name the cache gave; the cache has expired
\* since, and the unit of another route has notified its subscribers with the
\* raw ids
C27_Witness ==
  \E w, v \in Workers :
    /\ chk[w].pc = "c_mark" /\ chk[w].to_station_name = "Brno hl.n."
    /\ cache.kind = "absent"
    /\ chk[v].pc = "c_mark" /\ chk[v].subscribers # {}
    /\ chk[v].from_station_name = "ID A"
    /\ chk[v].to_station_name = "ID " \o ToString(routes[chk[v].rid].to_location_id)
    /\ \A u \in chk[v].subscribers : outbox[<<chk[v].rid, u>>] = 1

\* C28: every execution of a delivery is the first, second or third attempt
\* of its message: no task whose request.retries is 3 or more is executed.
C28_AtMostThreeAttempts ==
  [][\A k \in DOMAIN mail, retries \in 0..max_retries :
       mail'[k].queued[retries] < mail[k].queued[retries] => retries + 1 <= 3]_vars

\* the refresh that met this response has failed: transport error, error
\* status, a body that is no list, or a malformed entry
RefreshFailed(resp) ==
  \/ resp.kind # "object"
  \/ resp.body.kind # "list"
  \/ MalformedListing(resp.body)

\* C29: a get_locations whose refresh fails when an earlier call has fetched
\* and returned a directory with entries does not fail: it returns that
\* directory.
C29_FailedRefreshServesPrevious ==
  [][\A p, q \in Procs :
       (req[p].pc = "l_fetch" /\ req'[p].pc = "done" /\ RefreshFailed(req'[p].resp)
          /\ req[q].op = "locations" /\ req[q].pc = "done" /\ req[q].res = "ok"
          /\ req[q].locations # <<>>)
         => (req'[p].res = "ok" /\ req'[p].locations = req[q].locations)]_vars

\* C30: a refresh whose listing has a malformed entry fails and leaves the
\* cache as it was: the listing is neither returned nor stored without the
\* entry.
C30_MalformedListingIsHardFailure ==
  [][\A p \in Procs :
       (req[p].pc = "l_fetch" /\ req'[p].pc = "done"
          /\ MalformedListing(req'[p].resp.body))
         => (req'[p].res = "error" /\ cache' = cache)]_vars
\* C38: when a Sweeper tick ends, every route it selected is EXPIRED, but
\* for the one route whose commit failed in the tick's last iteration.
C38_SweepSurvivesFailure ==
  [][(sweep.pc = "expire" /\ sweep'.pc = "idle")
       => \E rid \in sweep.ids :
            \A j \in sweep.selected \ {rid} :
              routes'[j] # NoRow => routes'[j].status = EXPIRED]_vars

\* C31: under fair Sweeper ticks a route whose departure has passed gets to
\* status EXPIRED, whatever its status (FOUND included) and whatever monitor
\* and restart requests arrive for it in the meantime.
C31_DepartedEventuallyExpired ==
  \A i \in RouteIds :
    (Exists(i) /\ routes[i].departure_datetime < now)
      ~> (Exists(i) /\ routes[i].status = EXPIRED)

\* a route that was FOUND and restarted is EXPIRED by a tick after its
\* departure, and another request for it is being served
C31_Witness ==
  \E i \in RouteIds, p, q \in Procs :
    /\ Exists(i) /\ routes[i].status = EXPIRED /\ i \in sweep.selected
    /\ routes[i].departure_datetime < now
    /\ req[p].pc = "done" /\ req[p].op = "restart" /\ req[p].res = "restarted"
    /\ req[p].rid = i
    /\ q # p /\ req[q].pc \notin {"idle", "done"}

\* C32: a check unit that finds no row for its route id, or a row that is
\* not MONITORING, ends there: it does not get to its availability check,
\* enqueues nothing and writes nothing.
C32_UnitRevalidates ==
  [][\A rid \in RouteIds :
       (queue'[rid] = queue[rid] - 1
          /\ ~(Exists(rid) /\ routes[rid].status = MONITORING))
         => /\ chk' = chk
            /\ routes' = routes /\ subs' = subs /\ found' = found
            /\ outbox' = outbox /\ mail' = mail]_vars

\* every check unit dispatched for a route has run, the route is EXPIRED and
\* its verified subscriber was sent nothing although the upstream had seats:
\* each of the units ended at its look at the route
C32_Witness ==
  \E rid \in RouteIds :
    /\ Exists(rid) /\ routes[rid].status = EXPIRED
    /\ routes[rid].last_checked_at # NULL
    /\ queue[rid] = 0
    /\ \A w \in Workers : chk[w].pc = "idle"
    /\ \A t \in Scheds : sched[t].pc = "idle"
    /\ HasSub(1, rid) /\ verified[1]
    /\ \A u \in Users : outbox[<<rid, u>>] = 0

\* C33: a check unit whose availability check reports no seats or fails
\* ends with that one check: nothing is enqueued, no route changes, the task
\* is not queued again; the next Scheduler tick selects every MONITORING
\* route, the checked one included, and its loop queues a new check of each
\* selected route, one by one.  (The loop ends early only at a publish the
\* broker refuses.)
C33_FailedCheckWaitsForNextTick ==
  [][/\ \A w \in Workers :
          (chk[w].pc = "c_check" /\ chk'[w] # chk[w])
            => /\ chk'[w] = IdleCheck
               /\ routes' = routes /\ found' = found
               /\ outbox' = outbox /\ mail' = mail
               /\ queue' = queue
     /\ ticks' = ticks + 1
          => \A rid \in RouteIds :
               (Exists(rid) /\ routes[rid].status = MONITORING)
                 => \E s \in Scheds : sched'[s].pc = "stamp" /\ rid \in sched'[s].ids
     /\ \A s \in Scheds :
          /\ (sched[s].pc = "stamp" /\ sched'[s].pc # "stamp")
               => (sched'[s].pc = "dispatch" /\ sched'[s].ids = sched[s].ids)
          /\ (sched[s].pc = "dispatch" /\ sched'[s] # sched[s])
               => \/ \E rid \in sched[s].ids :
                       /\ queue'[rid] = queue[rid] + 1
                       /\ sched'[s].ids = sched[s].ids \ {rid}
                  \/ DispatchRefused(s)]_vars

\* the route has had two check units dispatched, by the tick before and by
\* this one; the first has ended without seats, the route is MONITORING with
\* nothing enqueued, and the second is at its availability check
C33_Witness ==
  \E rid \in RouteIds, w \in Workers :
    /\ ticks = 2 /\ \A s \in Scheds : sched[s].pc = "idle"
    /\ queue[rid] = 0
    /\ chk[w].pc = "c_check" /\ chk[w].rid = rid
    /\ \A v \in Workers \ {w} : chk[v].pc = "idle"
    /\ Exists(rid) /\ routes[rid].status = MONITORING
    /\ routes[rid].last_checked_at = now /\ now > 0
    /\ \A u \in Users : outbox[<<rid, u>>] = 0

\* C34: while the only other request is a cancel of another user, a user
\* whose monitor request ended as monitoring-created holds a subscription on
\* an existing route.
C34_CreatedSubscriptionSurvivesCancel ==
  \A p, q \in Procs :
    (/\ req[p].op = "monitor" /\ req[p].pc = "done"
     /\ req[p].res = "monitoring_created"
     /\ req[q].op = "cancel" /\ req[q].user # req[p].user)
      => (Exists(req[p].rid) /\ HasSub(req[p].user, req[p].rid))

\* C35: the write of restart that makes a route MONITORING meets a route
\* that is FOUND and on which the requester is subscribed.
C35_RestartWritesOnlyFoundSubscribed ==
  [][\A p \in Procs :
       (req[p].pc = "r_update" /\ req'[p].pc = "r_refresh")
         => /\ routes[req[p].rid].status = FOUND
            /\ HasSub(req[p].user, req[p].rid)]_vars

\* the value of the key is a list all of whose entries validate
CompleteDirectory ==
  /\ cache.kind = "list"
  /\ \A i \in DOMAIN cache.locations : model_validate(cache.locations[i])

\* C37: a read of the cached directory returns the whole stored list, every
\* entry of it valid, or is a miss; it is a miss whenever the stored value is
\* not a list or has an entry that does not validate.
C37_CacheReadIsAllOrNothing ==
  [][\A p \in Procs :
       (req[p].pc = "l_cache" /\ req'[p].pc # "l_cache")
         => IF CompleteDirectory
            THEN /\ req'[p].pc = "done" /\ req'[p].res = "ok"
                 /\ req'[p].locations = cache.locations
            ELSE /\ req'[p].pc = "l_fetch"
                 /\ req'[p].locations = <<>>]_vars

\* the key holds a list with a valid entry before an invalid one, and a
\* request that read it has gone on to fetch the listing
C37_Witness ==
  \E p \in Procs :
    /\ req[p].pc = "l_fetch"
    /\ cache.kind = "list" /\ Len(cache.locations) >= 2
    /\ model_validate(cache.locations[1])
    /\ \E i \in DOMAIN cache.locations : ~model_validate(cache.locations[i])

\* C36: a cancel request that reported success has removed the requester's
\* subscription, and the route is gone unless it has a subscription (or
\* another request is between its commits on the route).
C36_CancelSuccessMeansDone ==
  \A p \in Procs :
    (req[p].op = "cancel" /\ req[p].pc = "done" /\ req[p].res = "ok")
      => /\ ~HasSub(req[p].user, req[p].rid)
         /\ (Exists(req[p].rid) /\ ~MidOperation(req[p].rid))
              => count_subscriptions_for_route(req[p].rid) > 0

\* a check unit of the route runs on the first worker, no other unit of the
\* route is running or queued, and a Scheduler tick is still to come
StalledUnit(rid) ==
  /\ chk[StalledWorker].pc # "idle" /\ chk[StalledWorker].rid = rid
  /\ \A w \in Workers \ {StalledWorker} : chk[w].pc = "idle"
  /\ queue[rid] = 0
  /\ \A s \in Scheds : sched[s].pc = "idle"
  /\ ticks < MaxTicks

\* C39: while a check unit of a route does not finish and the route stays
\* MONITORING, a later tick dispatches a further check unit of the route and
\* another worker starts it.
C39_StalledUnitDoesNotBlockRoute ==
  \A rid \in RouteIds :
    StalledUnit(rid)
      ~> \/ \E w \in Workers \ {StalledWorker} : chk[w].pc # "idle" /\ chk[w].rid = rid
         \/ chk[StalledWorker].pc = "idle"
         \/ ~(Exists(rid) /\ routes[rid].status = MONITORING)

\* the unit of the first worker has not finished, the next tick is over, and
\* another worker is at the availability check of the same route
C39_Witness ==
  \E rid \in RouteIds, w \in Workers \ {StalledWorker} :
    /\ chk[StalledWorker].pc = "c_check" /\ chk[StalledWorker].rid = rid
    /\ chk[w].pc = "c_check" /\ chk[w].rid = rid
    /\ ticks = MaxTicks /\ \A s \in Scheds : sched[s].pc = "idle"
    /\ queue[rid] = 0
    /\ routes[rid].status = MONITORING

====
